---- MODULE Spec2Model ----
(***************************************************************************)
(* A model of mcp-sync: the reconciliation engine (mcp_sync/sync.py) and   *)
(* the CLI executor it drives (mcp_sync/clients/executor.py).              *)
(*                                                                         *)
(* Representation.  A Python string is a sequence of atoms; an atom is a   *)
(* character, or a run of characters that the code only ever treats as a  *)
(* unit ("cli:", ".mcp.json", a placeholder such as "{name}").  A JSON     *)
(* value of a server record is a tagged pair [kind, v], so that values of  *)
(* different Python types can be compared the way Python's == compares    *)
(* them.  A Python dict is a function; its iteration order is abstracted   *)
(* to one fixed enumeration order (NameOrder).                             *)
(***************************************************************************)
EXTENDS Integers, Sequences, FiniteSets, TLC

\* ------------------------------------------------------------------------
\* Strings
\* ------------------------------------------------------------------------

\* the atoms made of characters [a-zA-Z0-9] that occur in the model's strings
AlnumAtoms == {"a", "b", "c", "h", "n", "t", "u", "y", "K", "1",
               "list", "add", "remove", "get"}

NL == "\n"

\* str.split on the separators seps, empty pieces left out
RECURSIVE SplitOn(_, _, _)
SplitOn(s, seps, cur) ==
    IF s = <<>> THEN (IF cur = <<>> THEN <<>> ELSE <<cur>>)
    ELSE IF Head(s) \in seps
         THEN (IF cur = <<>> THEN <<>> ELSE <<cur>>) \o SplitOn(Tail(s), seps, <<>>)
         ELSE SplitOn(Tail(s), seps, Append(cur, Head(s)))

Whitespace == {" ", NL}

IsWs(a) == a \in Whitespace

\* the quote character of the model's strings
Quote == "'"

\* shlex.split raises ValueError ("No closing quotation")
ShlexRaises(s) == Cardinality({i \in 1..Len(s) : s[i] = Quote}) % 2 = 1

\* shlex's tokens: whitespace splits outside quotes, a quote opens or closes
\* a quoted part of the token (started: a token has begun, quoted: inside
\* quotes)
RECURSIVE ShlexTokens(_, _, _, _)
ShlexTokens(s, cur, started, quoted) ==
    IF s = <<>> THEN (IF started THEN <<cur>> ELSE <<>>)
    ELSE IF Head(s) = Quote THEN ShlexTokens(Tail(s), cur, TRUE, ~quoted)
    ELSE IF IsWs(Head(s)) /\ ~quoted
         THEN (IF started THEN <<cur>> ELSE <<>>) \o ShlexTokens(Tail(s), <<>>, FALSE, FALSE)
         ELSE ShlexTokens(Tail(s), Append(cur, Head(s)), TRUE, quoted)

\* shlex.split(s) when it does not raise
ShlexSplit(s) == ShlexTokens(s, <<>>, FALSE, FALSE)

\* re.match(r"^[...]+$", s): one or more characters of the class; Python's $
\* also matches just before a newline that ends the string
MatchesClassPlus(s, class) ==
    LET body == IF Len(s) >= 1 /\ s[Len(s)] = NL THEN SubSeq(s, 1, Len(s) - 1) ELSE s
    IN  /\ Len(body) >= 1
        /\ \A i \in 1..Len(body) : body[i] \in class

\* re.match(r"^[first][class]*$", s)
MatchesIdentifier(s, first, class) ==
    LET body == IF Len(s) >= 1 /\ s[Len(s)] = NL THEN SubSeq(s, 1, Len(s) - 1) ELSE s
    IN  /\ Len(body) >= 1
        /\ body[1] \in first
        /\ \A i \in 2..Len(body) : body[i] \in class

\* CLIExecutor._validate_command_name
ValidateCommandName(command) ==
    /\ command # <<>>
    /\ MatchesClassPlus(command, AlnumAtoms \cup {"_", ".", "-"})

\* the server-name test of get/add/remove/_detect_server_scope:
\* name and re.match(r"^[a-zA-Z0-9_-]+$", name)
ValidServerName(name) ==
    /\ name # <<>>
    /\ MatchesClassPlus(name, AlnumAtoms \cup {"_", "-"})

\* ------------------------------------------------------------------------
\* JSON values and server records
\* ------------------------------------------------------------------------

\* a dict key that is not there / None / str / list[str] / dict (its keys)
Absent    == [kind |-> "absent", v |-> <<>>]
None      == [kind |-> "none", v |-> <<>>]
StrV(s)   == [kind |-> "str", v |-> <<s>>]
ListV(l)  == [kind |-> "list", v |-> l]
DictV(ks) == [kind |-> "dict", v |-> ks]

Fields == {"command", "args", "env", "url"}

\* a server record: the dict {command, args, env, url}, absent keys marked
Rec(c, a, e, u) == [f \in Fields |->
    CASE f = "command" -> c [] f = "args" -> a [] f = "env" -> e [] OTHER -> u]

\* dict.get(key, default)
Get(config, key, default) ==
    IF config[key].kind = "absent" THEN default ELSE config[key]

\* Python truthiness of a value
Truthy(val) == val.kind \in {"str", "list", "dict"} /\ val.v # <<>> /\ val.v # << <<>> >>

\* a validation that accepts every record
MCPServerConfigValidAny(config) == TRUE

\* MCPServerConfig(**config): pydantic validation of a record; extra keys are
\* ignored, command must be a non-empty list whose first element is non-empty
MCPServerConfigValid(config) ==
    /\ config["command"].kind = "list"
    /\ config["command"].v # <<>>
    /\ config["command"].v[1] # <<>>
    /\ config["args"].kind \in {"absent", "none", "list"}
    /\ config["env"].kind \in {"absent", "none", "dict"}

\* MCPServerConfig(**config).model_dump(): the three declared fields, a field
\* that was not given is dumped as None, an undeclared key (url) is dropped
MCPServerConfig(config) ==
    Rec(config["command"],
        IF config["args"].kind = "absent" THEN None ELSE config["args"],
        IF config["env"].kind = "absent" THEN None ELSE config["env"],
        Absent)

\* the order in which the model enumerates the keys of a dict of servers
NameOrder == << <<"a">>, <<"b">> >>

Names == {NameOrder[i] : i \in 1..Len(NameOrder)}

\* the keys of dict m, in enumeration order
Keys(m) == SelectSeq(NameOrder, LAMBDA n : n \in DOMAIN m)

EmptyMap == [n \in {} |-> Absent]

\* dict d1 overlaid with dict d2 ({**d1, **d2})
Overlay(d1, d2) ==
    [n \in (DOMAIN d1) \cup (DOMAIN d2) |-> IF n \in DOMAIN d2 THEN d2[n] ELSE d1[n]]

\* ------------------------------------------------------------------------
\* Documents
\* ------------------------------------------------------------------------

\* a JSON document on disk: state is "ok", "missing" or "corrupt"; hasKey says
\* whether the top-level object has the key mcpServers; other is the value of
\* another top-level key; writable says whether open(path, "w") succeeds
Doc(state, hasKey, servers, other, writable) ==
    [state |-> state, hasKey |-> hasKey, mcpServers |-> servers,
     other |-> other, writable |-> writable]

\* a read that takes a missing or undecodable document for an empty one
ReadJsonConfigLenient(doc) == [doc EXCEPT !.state = "ok"]

\* SyncEngine._read_json_config: the document, or None
ReadJsonConfig(doc) == IF doc.state = "ok" THEN doc ELSE None

\* current_config.get("mcpServers", {})
ServersOf(doc) == IF doc.hasKey THEN doc.mcpServers ELSE EmptyMap

\* Settings.get_global_config: the validated mcpServers of global.json; a
\* missing or undecodable file, or one entry that fails validation, gives the
\* empty GlobalConfig()
GetGlobalConfig(doc) ==
    IF doc.state = "ok" /\ \A n \in DOMAIN ServersOf(doc) : MCPServerConfigValid(ServersOf(doc)[n])
    THEN [n \in DOMAIN ServersOf(doc) |-> MCPServerConfig(ServersOf(doc)[n])]
    ELSE EmptyMap

\* ------------------------------------------------------------------------
\* SyncEngine._build_master_server_list
\* ------------------------------------------------------------------------

\* {**config, "_source": source}
Tagged(config, source) ==
    [f \in Fields \cup {"_source"} |-> IF f = "_source" THEN source ELSE config[f]]

\* config.copy(); config.pop("_source", None)
Clean(entry) == [f \in Fields |-> entry[f]]

\* a master list in which a project record is laid over the global record field
\* by field: a field the project record lacks keeps the global record's value
BuildMasterServerListDeepMerge(glob, proj, global_only, project_only) ==
    LET fromGlobal ==
            IF ~project_only THEN GetGlobalConfig(glob) ELSE EmptyMap
        fromProject ==
            IF ~global_only /\ ReadJsonConfig(proj) # None THEN ServersOf(proj) ELSE EmptyMap
    IN  [n \in (DOMAIN fromGlobal) \cup (DOMAIN fromProject) |->
            IF n \notin DOMAIN fromProject THEN Tagged(fromGlobal[n], "global")
            ELSE IF n \notin DOMAIN fromGlobal THEN Tagged(fromProject[n], "project")
            ELSE Tagged([f \in Fields |->
                            IF fromProject[n][f].kind = "absent" THEN fromGlobal[n][f]
                            ELSE fromProject[n][f]], "project")]

\* SyncEngine._build_master_server_list
BuildMasterServerList(glob, proj, global_only, project_only) ==
    LET fromGlobal ==
            IF ~project_only
            THEN [n \in DOMAIN GetGlobalConfig(glob) |->
                     Tagged(GetGlobalConfig(glob)[n], "global")]
            ELSE EmptyMap
        project_config == ReadJsonConfig(proj)
        fromProject ==
            IF ~global_only /\ project_config # None
            THEN [n \in DOMAIN ServersOf(project_config) |->
                     Tagged(ServersOf(project_config)[n], "project")]
            ELSE EmptyMap
    IN  Overlay(fromGlobal, fromProject)

\* ------------------------------------------------------------------------
\* SyncEngine._sync_location, file variant
\* ------------------------------------------------------------------------

\* SyncResult([], [], [], dry_run)
EmptyResult == [updated_locations |-> <<>>, conflicts |-> <<>>, errors |-> <<>>]

\* the conflicts of the loop over current_servers: one entry for each stored
\* name that the master list has with a different record
RECURSIVE FileConflicts(_, _, _, _)
FileConflicts(names, current_servers, master_servers, location) ==
    IF names = <<>> THEN <<>>
    ELSE LET name == Head(names)
             rest == FileConflicts(Tail(names), current_servers, master_servers, location)
         IN  IF name \in DOMAIN master_servers
                /\ current_servers[name] # Clean(master_servers[name])
             THEN << [server |-> name, location |-> location.path,
                      action |-> "overridden",
                      source |-> master_servers[name]["_source"]] >> \o rest
             ELSE rest

\* new_servers without the entries that only the store has
FileNewServersMasterOnly(current_servers, master_servers) ==
    [n \in DOMAIN master_servers |-> Clean(master_servers[n])]

\* new_servers: the stored entries the master list does not name, then every
\* master entry without its _source
FileNewServers(current_servers, master_servers) ==
    Overlay([n \in (DOMAIN current_servers) \ (DOMAIN master_servers) |-> current_servers[n]],
            [n \in DOMAIN master_servers |-> Clean(master_servers[n])])

\* a document written with the server map alone
NewConfigServersOnly(current_config, new_servers) ==
    Doc("ok", TRUE, new_servers, 0, current_config.writable)

\* new_config = current_config.copy(); new_config["mcpServers"] = new_servers
NewConfig(current_config, new_servers) ==
    [current_config EXCEPT !.hasKey = TRUE, !.mcpServers = new_servers]

\* the outcome of _sync_location on a file store: whether it raised, the
\* document afterwards, the result afterwards, whether the document was written
SyncFileLocation(location, doc, master_servers, result, dry_run) ==
    LET current_config  == ReadJsonConfig(doc)
        current_servers == ServersOf(doc)
        conflicts   == FileConflicts(Keys(current_servers), current_servers,
                                     master_servers, location)
        new_servers == FileNewServers(current_servers, master_servers)
        new_config  == NewConfig(doc, new_servers)
        changed     == current_servers # new_servers
        marked      == IF changed
                       THEN Append(result.updated_locations, location.path)
                       ELSE result.updated_locations
    IN  IF current_config = None
        THEN [raised |-> FALSE, doc |-> doc, wrote |-> FALSE,
              result |-> [result EXCEPT !.errors =
                  Append(@, [location |-> location.path, error |-> "Failed to read config"])]]
        ELSE IF changed /\ ~dry_run /\ ~doc.writable
        THEN [raised |-> TRUE, doc |-> doc, wrote |-> FALSE, result |-> result]
        ELSE [raised |-> FALSE,
              doc    |-> IF changed /\ ~dry_run THEN new_config ELSE doc,
              wrote  |-> changed /\ ~dry_run,
              result |-> [result EXCEPT !.updated_locations = marked,
                                        !.conflicts = @ \o conflicts]]

\* ------------------------------------------------------------------------
\* The external CLI tool and the spawned process (subprocess.run)
\* ------------------------------------------------------------------------

\* str.join: the strings of l with sep between them
RECURSIVE Join(_, _)
Join(l, sep) ==
    IF l = <<>> THEN <<>>
    ELSE IF Len(l) = 1 THEN l[1]
    ELSE l[1] \o sep \o Join(Tail(l), sep)

RECURSIVE Concat(_)
Concat(l) == IF l = <<>> THEN <<>> ELSE Head(l) \o Concat(Tail(l))

\* The state of a CLI client's tool: the executable it is installed as, the
\* servers it holds (name -> launch argv), what its get command prints (scope),
\* and how its processes end ("none": normally, "exit1", "timeout").
Tool(exe, servers, scope, fault) ==
    [exe |-> exe, servers |-> servers, scope |-> scope, fault |-> fault]

\* what `<exe> list` prints: one line `name: command-line` per server
ListOutput(servers) ==
    Concat([i \in 1..Len(Keys(servers)) |->
              Keys(servers)[i] \o <<":", " ">> \o Join(servers[Keys(servers)[i]], <<" ">>)
              \o <<NL>>])


\* the position of the first element of argv equal to tok, 0 when there is none
IndexOf(argv, tok) ==
    IF \E i \in 1..Len(argv) : argv[i] = tok
    THEN CHOOSE i \in 1..Len(argv) : argv[i] = tok /\ \A j \in 1..(i - 1) : argv[j] # tok
    ELSE 0

\* subprocess.run(argv, ...): how the process ends ("exit0", "exit1",
\* "timeout", "notfound"), what it prints, and the tool's state afterwards.
\* The tool's command line is `<exe> --version | list | get <name> |
\* remove <name> | add <name> [flags] -- <argv>`.
Spawn(tool, argv) ==
    LET end(status, out, servers) ==
            [status |-> status, stdout |-> out, tool |-> [tool EXCEPT !.servers = servers]]
        sub  == IF Len(argv) >= 2 THEN argv[2] ELSE <<>>
        name == IF Len(argv) >= 3 THEN argv[3] ELSE <<>>
        dd   == IndexOf(argv, <<"--">>)
    IN  IF argv = <<>> \/ argv[1] # tool.exe THEN end("notfound", <<>>, tool.servers)
        ELSE IF tool.fault = "timeout" THEN end("timeout", <<>>, tool.servers)
        ELSE IF tool.fault = "exit1"
             THEN end("exit1", IF sub = <<"get">> THEN tool.scope ELSE <<>>, tool.servers)
        ELSE IF sub = <<"--version">> THEN end("exit0", <<>>, tool.servers)
        ELSE IF sub = <<"list">> THEN end("exit0", ListOutput(tool.servers), tool.servers)
        ELSE IF sub = <<"get">> /\ name \in DOMAIN tool.servers
             THEN end("exit0", tool.scope, tool.servers)
        ELSE IF sub = <<"remove">> /\ name \in DOMAIN tool.servers
             THEN end("exit0", <<>>, [n \in (DOMAIN tool.servers) \ {name} |-> tool.servers[n]])
        ELSE IF sub = <<"add">> /\ name # <<>> /\ dd > 3 /\ dd < Len(argv)
             THEN end("exit0", <<>>,
                      Overlay(tool.servers, [n \in {name} |-> SubSeq(argv, dd + 1, Len(argv))]))
        ELSE end("exit1", <<>>, tool.servers)

\* ------------------------------------------------------------------------
\* CLIExecutor
\* ------------------------------------------------------------------------

\* MCPClientConfig: the display name, config_type, the config path of this
\* platform (<<>> when the definition has none) and cli_commands (command name
\* -> template); cli_commands None is the empty dict
ClientConfig(name, config_type, path, cli_commands) ==
    [name |-> name, config_type |-> config_type, path |-> path,
     cli_commands |-> cli_commands]

\* cli_commands.get(key); None and "" are both falsy
Template(client_config, key) ==
    IF key \in DOMAIN client_config.cli_commands THEN client_config.cli_commands[key] ELSE <<>>

\* part.replace(placeholder, value)
Replace(part, placeholder, value) ==
    Concat([i \in 1..Len(part) |-> IF part[i] = placeholder THEN value ELSE <<part[i]>>])

\* placeholder in part
Has(part, placeholder) == \E i \in 1..Len(part) : part[i] = placeholder

\* str.strip()
RECURSIVE LStrip(_)
LStrip(s) == IF s # <<>> /\ IsWs(Head(s)) THEN LStrip(Tail(s)) ELSE s
RECURSIVE RStrip(_)
RStrip(s) == IF s # <<>> /\ IsWs(s[Len(s)]) THEN RStrip(SubSeq(s, 1, Len(s) - 1)) ELSE s
Strip(s) == RStrip(LStrip(s))

\* the outcome of an executor call: the value returned, the argument vectors
\* spawned (in order) and the tool afterwards
Outcome(ret, spawned, tool) == [ret |-> ret, spawned |-> spawned, tool |-> tool]

\* CLIExecutor.is_cli_available
IsCliAvailable(client_config, tool) ==
    LET command_parts == ShlexSplit(Template(client_config, "list_mcp"))
        base_cmd == command_parts[1]
        Ran(run) == Outcome(run.status = "exit0", << <<base_cmd, <<"--version">> >> >>,
                            run.tool)
    IN  IF Template(client_config, "list_mcp") = <<>> \/ command_parts = <<>>
        THEN Outcome(FALSE, <<>>, tool)
        ELSE IF ~ValidateCommandName(base_cmd) THEN Outcome(FALSE, <<>>, tool)
        ELSE Ran(Spawn(tool, <<base_cmd, <<"--version">> >>))

\* the dict built from the lines of the list output; a later line replaces an
\* earlier one of the same name
RECURSIVE ParseLines(_)
ParseLines(lines) ==
    IF lines = <<>> THEN EmptyMap
    ELSE LET line  == Head(lines)
             colon == IndexOf(line, ":")
             name  == Strip(SubSeq(line, 1, colon - 1))
             command_line == Strip(SubSeq(line, colon + 1, Len(line)))
             rest  == ParseLines(Tail(lines))
         IN  IF Strip(line) # <<>> /\ colon > 0 /\ ValidServerName(name)
             THEN Overlay([n \in {name} |->
                             Rec(ListV(ShlexSplit(command_line)), Absent, Absent, Absent)],
                          rest)
             ELSE rest

\* the value for an exit status 0: the parsed servers, None (except
\* ValueError) when shlex.split raises on the command line of a parsed line
ParseOutput(lines) ==
    LET Raises(line) ==
            LET colon == IndexOf(line, ":")
            IN  /\ Strip(line) # <<>> /\ colon > 0
                /\ ValidServerName(Strip(SubSeq(line, 1, colon - 1)))
                /\ ShlexRaises(Strip(SubSeq(line, colon + 1, Len(line))))
    IN  IF \E k \in 1..Len(lines) : Raises(lines[k])
        THEN [ok |-> FALSE, servers |-> EmptyMap]
        ELSE [ok |-> TRUE, servers |-> ParseLines(lines)]

\* CLIExecutor.get_mcp_servers; ret is [ok |-> FALSE] for None
GetMcpServers(client_id, client_config, tool) ==
    LET list_command  == Template(client_config, "list_mcp")
        command_parts == ShlexSplit(list_command)
        none  == [ok |-> FALSE, servers |-> EmptyMap]
        Ran(run) ==
            IF run.status = "exit0"
            THEN Outcome(ParseOutput(SplitOn(Strip(run.stdout), {NL}, <<>>)),
                         <<command_parts>>, run.tool)
            ELSE Outcome(none, <<command_parts>>, run.tool)
    IN  IF client_id = <<>> THEN Outcome(none, <<>>, tool)
        ELSE IF client_config.config_type # "cli" \/ DOMAIN client_config.cli_commands = {}
        THEN Outcome(none, <<>>, tool)
        ELSE IF list_command = <<>> \/ command_parts = <<>> THEN Outcome(none, <<>>, tool)
        ELSE IF ~ValidateCommandName(command_parts[1]) THEN Outcome(none, <<>>, tool)
        ELSE Ran(Spawn(tool, command_parts))

\* the -e KEY=value pairs of env_vars; a key that is not an identifier is
\* left out (every value is "1" in this model)
RECURSIVE EnvFlags(_)
EnvFlags(keys) ==
    IF keys = <<>> THEN <<>>
    ELSE LET key == Head(keys)
         IN  IF MatchesIdentifier(key, (AlnumAtoms \ {"1"}) \cup {"_"}, AlnumAtoms \cup {"_"})
             THEN << <<"-e">>, key \o <<"=", "1">> >> \o EnvFlags(Tail(keys))
             ELSE EnvFlags(Tail(keys))

\* the argument vector add_mcp_server builds from the template parts
RECURSIVE AddCmdParts(_, _, _, _, _)
AddCmdParts(template_parts, name, command, env_flags, scope) ==
    IF template_parts = <<>> THEN <<>>
    ELSE LET part == Head(template_parts)
             here ==
                IF Has(part, "{scope}") THEN <<Replace(part, "{scope}", scope)>>
                ELSE IF Has(part, "{transport}")
                     THEN <<Replace(part, "{transport}", <<"stdio">>)>>
                ELSE IF Has(part, "{env_flags}") THEN env_flags
                ELSE IF Has(part, "{name}") THEN <<Replace(part, "{name}", name)>>
                ELSE IF Has(part, "{command}") THEN <<Replace(part, "{command}", command[1])>>
                ELSE IF Has(part, "{args}") THEN Tail(command)
                ELSE IF Has(part, "{command_args}") THEN << <<"--">> >> \o command
                ELSE <<part>>
         IN  here \o AddCmdParts(Tail(template_parts), name, command, env_flags, scope)

ScopeNames == { <<"local">>, <<"user">>, <<"project">> }

\* CLIExecutor.add_mcp_server; command is a list of strings, env_vars a value
AddMcpServer(client_id, client_config, name, command, env_vars, scope, tool) ==
    LET add_template == Template(client_config, "add_mcp")
        env_flags == IF env_vars.kind = "dict" THEN EnvFlags(env_vars.v) ELSE <<>>
        built     == AddCmdParts(ShlexSplit(add_template), name, command, env_flags, scope)
        cmd_parts == SelectSeq(built, LAMBDA part : part # <<>> /\ Strip(part) # <<>>)
        Ran(run) == Outcome(run.status = "exit0", <<cmd_parts>>, run.tool)
    IN  IF client_id = <<>> THEN Outcome(FALSE, <<>>, tool)
        ELSE IF name = <<>> \/ ~ValidServerName(name) THEN Outcome(FALSE, <<>>, tool)
        ELSE IF command = <<>> \/ command[1] = <<>> THEN Outcome(FALSE, <<>>, tool)
        ELSE IF scope \notin ScopeNames THEN Outcome(FALSE, <<>>, tool)
        ELSE IF client_config.config_type # "cli" \/ DOMAIN client_config.cli_commands = {}
        THEN Outcome(FALSE, <<>>, tool)
        ELSE IF add_template = <<>> THEN Outcome(FALSE, <<>>, tool)
        ELSE IF ~ValidateCommandName(command[1]) THEN Outcome(FALSE, <<>>, tool)
        ELSE Ran(Spawn(tool, cmd_parts))

\* str.lower() on the atoms of the get output
Lower(s) == [i \in 1..Len(s) |->
    CASE s[i] = "SCOPE:" -> "scope:" [] s[i] = "USER" -> "user"
      [] s[i] = "PROJECT" -> "project" [] OTHER -> s[i]]

\* sub in s
Contains(s, sub) ==
    \E i \in 1..(Len(s) - Len(sub) + 1) : SubSeq(s, i, i + Len(sub) - 1) = sub

\* the argument vector built from a template whose only placeholders are
\* {scope} (when withScope) and {name}
RECURSIVE SimpleCmdParts(_, _, _, _)
SimpleCmdParts(template_parts, name, scope, withScope) ==
    IF template_parts = <<>> THEN <<>>
    ELSE LET part == Head(template_parts)
             here == IF withScope /\ Has(part, "{scope}") THEN Replace(part, "{scope}", scope)
                     ELSE IF Has(part, "{name}") THEN Replace(part, "{name}", name)
                     ELSE part
         IN  <<here>> \o SimpleCmdParts(Tail(template_parts), name, scope, withScope)

\* a scope detection that reads the output whatever the exit status is
DetectServerScopeAnyExit(client_id, client_config, name, tool) ==
    LET get_template == Template(client_config, "get_mcp")
        cmd_parts == SimpleCmdParts(ShlexSplit(get_template), name, <<>>, FALSE)
        Ran(run) ==
            LET output == Lower(run.stdout)
            IN  IF Contains(output, <<"scope:", " ", "user">>)
                THEN Outcome(<<"user">>, <<cmd_parts>>, run.tool)
                ELSE IF Contains(output, <<"scope:", " ", "project">>)
                THEN Outcome(<<"project">>, <<cmd_parts>>, run.tool)
                ELSE Outcome(<<"local">>, <<cmd_parts>>, run.tool)
    IN  Ran(Spawn(tool, cmd_parts))

\* CLIExecutor._detect_server_scope
DetectServerScope(client_id, client_config, name, tool) ==
    LET get_template == Template(client_config, "get_mcp")
        cmd_parts == SimpleCmdParts(ShlexSplit(get_template), name, <<>>, FALSE)
        local  == <<"local">>
        Ran(run) ==
            LET output == Lower(run.stdout)
            IN  IF run.status = "exit0" /\ Contains(output, <<"scope:", " ", "user">>)
                THEN Outcome(<<"user">>, <<cmd_parts>>, run.tool)
                ELSE IF run.status = "exit0"
                        /\ Contains(output, <<"scope:", " ", "project">>)
                THEN Outcome(<<"project">>, <<cmd_parts>>, run.tool)
                ELSE Outcome(local, <<cmd_parts>>, run.tool)
    IN  IF client_id = <<>> THEN Outcome(local, <<>>, tool)
        ELSE IF name = <<>> \/ ~ValidServerName(name) THEN Outcome(local, <<>>, tool)
        ELSE IF client_config.config_type # "cli" \/ DOMAIN client_config.cli_commands = {}
        THEN Outcome(local, <<>>, tool)
        ELSE IF get_template = <<>> THEN Outcome(local, <<>>, tool)
        ELSE Ran(Spawn(tool, cmd_parts))

\* CLIExecutor.remove_mcp_server called without a scope (scope=None)
RemoveMcpServer(client_id, client_config, name, tool) ==
    LET remove_template == Template(client_config, "remove_mcp")
        detect    == DetectServerScope(client_id, client_config, name, tool)
        scope     == IF detect.ret \in ScopeNames THEN detect.ret ELSE <<"local">>
        cmd_parts == SimpleCmdParts(ShlexSplit(remove_template), name, scope, TRUE)
        Ran(run) == Outcome(run.status = "exit0", detect.spawned \o <<cmd_parts>>, run.tool)
    IN  IF client_id = <<>> THEN Outcome(FALSE, <<>>, tool)
        ELSE IF name = <<>> \/ ~ValidServerName(name) THEN Outcome(FALSE, <<>>, tool)
        ELSE IF client_config.config_type # "cli" \/ DOMAIN client_config.cli_commands = {}
        THEN Outcome(FALSE, <<>>, tool)
        ELSE IF remove_template = <<>> THEN Outcome(FALSE, <<>>, tool)
        ELSE Ran(Spawn(detect.tool, cmd_parts))

\* ------------------------------------------------------------------------
\* SyncEngine._sync_cli_location
\* ------------------------------------------------------------------------

\* location["path"].startswith("cli:")
StartsWithCli(path) == path # <<>> /\ path[1] = "cli:"

\* the client a CLI location stands for
ClientId(location) ==
    IF StartsWithCli(location.path)
    THEN SelectSeq(location.path, LAMBDA a : a # "cli:")
    ELSE location.name

\* the argument vector the code computes from a record's command and args:
\* [command] + args or command + args; list + None raises TypeError (ok FALSE)
CanonicalArgv(config) ==
    LET cmd  == Get(config, "command", ListV(<<>>))
        args == Get(config, "args", ListV(<<>>))
    IN  IF cmd.kind \in {"str", "list"}
        THEN IF args.kind = "list"
             THEN [ok |-> TRUE, v |-> cmd.v \o args.v]
             ELSE [ok |-> FALSE, v |-> <<>>]
        ELSE [ok |-> TRUE, v |-> <<>>]

\* current_cmd != master_cmd: the stored command value against a list
DiffersFrom(current_cmd, argv) == current_cmd # ListV(argv)

\* the conflict loop over current_servers; it stops at the first record whose
\* argument vector cannot be computed
RECURSIVE CliConflicts(_, _, _, _)
CliConflicts(names, current_servers, master_servers, location) ==
    IF names = <<>> THEN [raised |-> FALSE, conflicts |-> <<>>]
    ELSE LET name == Head(names)
             rest == CliConflicts(Tail(names), current_servers, master_servers, location)
             master_cmd  == CanonicalArgv(Clean(master_servers[name]))
             current_cmd == Get(current_servers[name], "command", ListV(<<>>))
         IN  IF name \notin DOMAIN master_servers THEN rest
             ELSE IF ~master_cmd.ok THEN [raised |-> TRUE, conflicts |-> <<>>]
             ELSE IF DiffersFrom(current_cmd, master_cmd.v)
             THEN [rest EXCEPT !.conflicts =
                     << [server |-> name, location |-> location.path,
                         action |-> "overridden",
                         source |-> master_servers[name]["_source"],
                         current |-> current_cmd, master |-> master_cmd.v] >> \o @]
             ELSE rest

\* the servers of a dict that carry no (truthy) url
CommandServers(servers) ==
    [n \in {m \in DOMAIN servers : ~Truthy(servers[m]["url"])} |-> servers[n]]

\* changes_needed: "yes", "no", or "raise" when a vector cannot be computed
ChangesNeeded(current_servers, new_servers) ==
    LET current_command_servers == CommandServers(current_servers)
        new_command_servers     == CommandServers(new_servers)
        shared == (DOMAIN new_command_servers) \cap (DOMAIN current_command_servers)
    IN  IF DOMAIN current_command_servers # DOMAIN new_command_servers THEN "yes"
        ELSE IF \E n \in shared : ~CanonicalArgv(new_command_servers[n]).ok THEN "raise"
        ELSE IF \E n \in shared :
                  DiffersFrom(Get(current_command_servers[n], "command", ListV(<<>>)),
                              CanonicalArgv(new_command_servers[n]).v)
             THEN "yes"
        ELSE "no"

\* servers_to_remove: the store's names that new_servers does not name
ServersToRemove(current_servers, new_servers) ==
    SelectSeq(Keys(current_servers), LAMBDA n : n \notin DOMAIN new_servers)

\* the calls made so far on a CLI store: executor invocations, the argument
\* vectors spawned, the tool afterwards
RECURSIVE RemoveLoop(_, _, _, _)
RemoveLoop(names, client_id, client_config, acc) ==
    IF names = <<>> THEN acc
    ELSE LET Record(out) ==
                 [acc EXCEPT !.tool = out.tool,
                             !.spawned = @ \o out.spawned,
                             !.calls = Append(@, [op |-> "remove", name |-> Head(names),
                                                  command |-> <<>>, ret |-> out.ret])]
         IN  RemoveLoop(Tail(names), client_id, client_config,
                        Record(RemoveMcpServer(client_id, client_config, Head(names),
                                               acc.tool)))

\* the add/update loop over new_servers; it stops at the first record whose
\* argument vector cannot be computed, keeping what was done before it
RECURSIVE AddLoop(_, _, _, _, _, _)
AddLoop(names, current_servers, new_servers, client_id, client_config, acc) ==
    IF names = <<>> THEN acc
    ELSE LET name   == Head(names)
             config == new_servers[name]
             full_command == CanonicalArgv(config)
             env_vars == Get(config, "env", DictV(<<>>))
             Record(out) ==
                 [acc EXCEPT !.tool = out.tool,
                             !.spawned = @ \o out.spawned,
                             !.calls = Append(@, [op |-> "add", name |-> name,
                                                  command |-> full_command.v,
                                                  ret |-> out.ret])]
             next(a) == AddLoop(Tail(names), current_servers, new_servers,
                                client_id, client_config, a)
         IN  IF name \in DOMAIN current_servers /\ current_servers[name] = config
             THEN next(acc)
             ELSE IF Truthy(config["url"]) THEN next(acc)
             ELSE IF ~full_command.ok THEN [acc EXCEPT !.raised = TRUE]
             ELSE IF full_command.v = <<>> THEN next(acc)
             ELSE next(Record(AddMcpServer(client_id, client_config, name,
                                           full_command.v, env_vars, <<"local">>,
                                           acc.tool)))

\* the outcome of _sync_cli_location: whether it raised, the tool afterwards,
\* the result afterwards, the executor calls made, the vectors spawned, and
\* whether the comparisons of argument vectors all went through
SyncCliLocation(location, clients, tool, master_servers, result, dry_run) ==
    LET client_id     == ClientId(location)
        client_config == clients[client_id]
        new_servers   == [n \in DOMAIN master_servers |-> Clean(master_servers[n])]
        Reconcile(listed) ==
            LET current_servers == listed.ret.servers
                start == [raised |-> FALSE, tool |-> listed.tool,
                          spawned |-> listed.spawned, calls |-> <<>>]
                servers_to_remove == ServersToRemove(current_servers, new_servers)
                Decide(found, changes_needed) ==
                    LET done(acc, res) ==
                            [raised |-> acc.raised, tool |-> acc.tool, result |-> res,
                             calls |-> acc.calls, spawned |-> acc.spawned,
                             compared |-> ~(found.raised \/ changes_needed = "raise")]
                        marked == [result EXCEPT
                                      !.updated_locations = Append(@, location.path),
                                      !.conflicts = @ \o found.conflicts]
                        Finish(applied) ==
                            IF applied.raised THEN done(applied, result)
                            ELSE done(applied, marked)
                    IN  IF found.raised \/ changes_needed = "raise"
                        THEN done([start EXCEPT !.raised = TRUE], result)
                        ELSE IF changes_needed = "no"
                        THEN done(start, [result EXCEPT !.conflicts = @ \o found.conflicts])
                        ELSE IF dry_run THEN done(start, marked)
                        ELSE Finish(AddLoop(Keys(new_servers), current_servers, new_servers,
                                            client_id, client_config,
                                            RemoveLoop(servers_to_remove, client_id,
                                                       client_config, start)))
            IN  Decide(CliConflicts(Keys(current_servers), current_servers,
                                    master_servers, location),
                       ChangesNeeded(current_servers, new_servers))
    IN  IF client_id \notin DOMAIN clients
        THEN [raised |-> FALSE, tool |-> tool, result |-> result, calls |-> <<>>,
              spawned |-> <<>>, compared |-> TRUE]
        ELSE Reconcile(GetMcpServers(client_id, client_config, tool))

\* ------------------------------------------------------------------------
\* SyncEngine._get_sync_locations
\* ------------------------------------------------------------------------

\* LocationConfig.model_dump(): path, name, config_type (there is no scope key)
Location(path, name, config_type) ==
    [path |-> path, name |-> name, config_type |-> config_type]

\* loc["path"].endswith(".mcp.json")
EndsWithMcpJson(path) == path # <<>> /\ path[Len(path)] = ".mcp.json"

\* specific_location is a string, <<>> for None
GetSyncLocations(all_locations, specific_location, global_only, project_only) ==
    LET matches == SelectSeq(all_locations,
                       LAMBDA loc : loc.path = specific_location \/ loc.name = specific_location)
    IN  IF specific_location # <<>>
        THEN (IF matches = <<>> THEN <<>> ELSE <<matches[1]>>)
        ELSE SelectSeq(all_locations, LAMBDA loc : ~EndsWithMcpJson(loc.path))

\* ------------------------------------------------------------------------
\* State
\* ------------------------------------------------------------------------

VARIABLES
    files,           \* path -> document: global.json, .mcp.json, the file stores
    locations,       \* the location registry (locations.json), in registration order
    clients,         \* the client definitions: client id -> MCPClientConfig
    tools,           \* client id -> the state of that client's CLI tool
    pc,              \* "idle", or "loop" inside sync_all
    opts,            \* the options of the sync_all call
    master_servers,  \* sync_all's master list
    todo,            \* sync_all's locations
    idx,             \* the position of sync_all's loop in todo
    result,          \* the SyncResult being built
    steps,           \* what each step of the running call did (history)
    history          \* the finished calls: options, result and steps (history)

vars == <<files, locations, clients, tools, pc, opts, master_servers, todo, idx,
          result, steps, history>>

GlobalPath  == <<"global.json">>
ProjectPath == <<".mcp.json">>

\* the document at a path; a path nothing was ever written to is missing
MissingDoc == Doc("missing", FALSE, EmptyMap, 0, TRUE)
FileAt(fs, path) == IF path \in DOMAIN fs THEN fs[path] ELSE MissingDoc

\* Path(".mcp.json").exists() and _read_json_config of it
GetProjectConfig(fs) == FileAt(fs, ProjectPath)

\* the number of sync_all calls of one behaviour
MaxRuns == 2


\* ------------------------------------------------------------------------
\* SyncEngine.sync_all
\* ------------------------------------------------------------------------

\* sync_all up to its loop: the master list and the locations to sync
SyncAllBegin ==
    /\ pc = "idle"
    /\ Len(history) < MaxRuns
    /\ \E dry_run \in BOOLEAN :
        /\ opts' = [opts EXCEPT !.dry_run = dry_run]
        /\ master_servers' = BuildMasterServerList(FileAt(files, GlobalPath),
                                 GetProjectConfig(files),
                                 opts.global_only, opts.project_only)
        /\ todo' = GetSyncLocations(locations, opts.specific_location,
                                    opts.global_only, opts.project_only)
    /\ idx' = 1
    /\ result' = EmptyResult
    /\ pc' = "loop"
    /\ steps' = <<>>
    /\ UNCHANGED <<files, locations, clients, tools, history>>

IsCliLocation(location) == location.config_type = "cli" \/ StartsWithCli(location.path)

\* an exception of _sync_location that leaves no errors entry
FailedSilently(res, location) == res

\* the errors entry sync_all records for an exception of _sync_location
Failed(res, location) ==
    [res EXCEPT !.errors = Append(@, [location |-> location.path, error |-> "exception"])]

\* one iteration of sync_all's loop on a CLI store
SyncAllCliStep ==
    /\ pc = "loop"
    /\ idx <= Len(todo)
    /\ IsCliLocation(todo[idx])
    /\ LET location  == todo[idx]
           client_id == ClientId(location)
           tool == IF client_id \in DOMAIN tools THEN tools[client_id]
                   ELSE Tool(<<>>, EmptyMap, <<>>, "none")
       IN  \E out \in {SyncCliLocation(location, clients, tool, master_servers, result,
                                       opts.dry_run)} :
           /\ tools' = IF client_id \in DOMAIN tools
                       THEN [tools EXCEPT ![client_id] = out.tool] ELSE tools
           /\ result' = IF out.raised THEN Failed(out.result, location) ELSE out.result
           /\ steps' = Append(steps,
                         [kind |-> "cli", location |-> location, before |-> tool,
                          after |-> out.tool, raised |-> out.raised, calls |-> out.calls,
                          spawned |-> out.spawned, compared |-> out.compared,
                          result0 |-> result])
    /\ idx' = idx + 1
    /\ UNCHANGED <<files, locations, clients, pc, opts, master_servers, todo, history>>

\* one iteration of sync_all's loop on a file store
SyncAllFileStep ==
    /\ pc = "loop"
    /\ idx <= Len(todo)
    /\ ~IsCliLocation(todo[idx])
    /\ LET location == todo[idx]
           doc == FileAt(files, location.path)
       IN  \E out \in {SyncFileLocation(location, doc, master_servers, result,
                                        opts.dry_run)} :
           /\ files' = IF out.wrote
                       THEN Overlay(files, [q \in {location.path} |-> out.doc])
                       ELSE files
           /\ result' = IF out.raised THEN Failed(out.result, location) ELSE out.result
           /\ steps' = Append(steps,
                         [kind |-> "file", location |-> location, before |-> doc,
                          after |-> out.doc, raised |-> out.raised, calls |-> <<>>,
                          spawned |-> <<>>, compared |-> TRUE, result0 |-> result])
    /\ idx' = idx + 1
    /\ UNCHANGED <<locations, clients, tools, pc, opts, master_servers, todo, history>>

\* sync_all returns its result
SyncAllReturn ==
    /\ pc = "loop"
    /\ idx > Len(todo)
    /\ pc' = "idle"
    /\ history' = Append(history, [opts |-> opts, result |-> result, steps |-> steps,
                                    todo |-> todo])
    /\ UNCHANGED <<files, locations, clients, tools, opts, master_servers, todo, idx,
                   result, steps>>

SyncNext == SyncAllBegin \/ SyncAllCliStep \/ SyncAllFileStep \/ SyncAllReturn

\* the states a CLI store can be left in when _sync_cli_location is cut short:
\* the tool after each prefix of the remove calls and of the add calls
InterruptedTools(location, tool, out) ==
    LET client_id     == ClientId(location)
        client_config == clients[client_id]
        new_servers   == [n \in DOMAIN master_servers |-> Clean(master_servers[n])]
        listed        == GetMcpServers(client_id, client_config, tool)
        current_servers   == listed.ret.servers
        servers_to_remove == ServersToRemove(current_servers, new_servers)
        start == [raised |-> FALSE, tool |-> listed.tool, spawned |-> <<>>, calls |-> <<>>]
        removed(j) == RemoveLoop(SubSeq(servers_to_remove, 1, j), client_id,
                                 client_config, start)
        added(j)   == AddLoop(SubSeq(Keys(new_servers), 1, j), current_servers, new_servers,
                              client_id, client_config, removed(Len(servers_to_remove)))
    IN  IF out.calls = <<>> THEN {tool, out.tool}
        ELSE { removed(j).tool : j \in 0..Len(servers_to_remove) } \cup
             { added(j).tool : j \in 0..Len(Keys(new_servers)) }

\* the states a file store can be left in when _sync_location is cut short:
\* as it was, written, or cut off inside json.dump
InterruptedDocs(doc, out) ==
    IF out.wrote THEN {doc, out.doc, Doc("corrupt", FALSE, EmptyMap, 0, TRUE)} ELSE {doc}

\* an interrupt that undoes the run: every store processed so far is put back
\* as the run found it
SyncAllInterruptRollback ==
    /\ pc = "loop"
    /\ idx <= Len(todo)
    /\ tools' = [c \in DOMAIN tools |->
                   IF \E i \in 1..Len(steps) : IsCliLocation(steps[i].location)
                                                /\ ClientId(steps[i].location) = c
                   THEN steps[CHOOSE i \in 1..Len(steps) :
                                 IsCliLocation(steps[i].location)
                                 /\ ClientId(steps[i].location) = c].before
                   ELSE tools[c]]
    /\ files' = [q \in DOMAIN files |->
                   IF \E i \in 1..Len(steps) : ~IsCliLocation(steps[i].location)
                                                /\ steps[i].location.path = q
                   THEN steps[CHOOSE i \in 1..Len(steps) :
                                 ~IsCliLocation(steps[i].location)
                                 /\ steps[i].location.path = q].before
                   ELSE files[q]]
    /\ pc' = "idle"
    /\ history' = Append(history, [opts |-> opts, result |-> result, steps |-> steps,
                                    todo |-> todo, at |-> idx])
    /\ UNCHANGED <<locations, clients, opts, master_servers, todo, idx, result, steps>>

\* KeyboardInterrupt while sync_all processes todo[idx]: no handler of
\* sync_all catches it (they catch Exception), main exits with status 130
SyncAllInterrupt ==
    /\ pc = "loop"
    /\ idx <= Len(todo)
    /\ LET location  == todo[idx]
           client_id == ClientId(location)
       IN  IF IsCliLocation(location)
           THEN /\ \E out \in {SyncCliLocation(location, clients, tools[client_id],
                                                master_servers, result, opts.dry_run)} :
                   \E left \in InterruptedTools(location, tools[client_id], out) :
                       tools' = [tools EXCEPT ![client_id] = left]
                /\ files' = files
           ELSE /\ \E out \in {SyncFileLocation(location, FileAt(files, location.path),
                                                 master_servers, result, opts.dry_run)} :
                   \E left \in InterruptedDocs(FileAt(files, location.path), out) :
                       files' = IF left = FileAt(files, location.path) THEN files
                                ELSE Overlay(files, [q \in {location.path} |-> left])
                /\ tools' = tools
    /\ pc' = "idle"
    /\ history' = Append(history, [opts |-> opts, result |-> result, steps |-> steps,
                                    todo |-> todo, at |-> idx])
    /\ UNCHANGED <<locations, clients, opts, master_servers, todo, idx, result, steps>>

InterruptNext ==
    SyncAllBegin \/ SyncAllCliStep \/ SyncAllFileStep \/ SyncAllReturn \/ SyncAllInterrupt

\* ------------------------------------------------------------------------
\* The inputs of the model
\* ------------------------------------------------------------------------

nA == NameOrder[1]
nB == NameOrder[2]

\* executables and arguments
sN   == <<"n">>
sU   == <<"u">>
sBad == <<"/", "n">>
sY   == <<"-", "y">>
sQ   == <<"y", Quote>>

\* entries of global.json, as _save_global_config writes them
gNone == Rec(ListV(<<sN>>), None, None, Absent)
gArgs == Rec(ListV(<<sN>>), ListV(<<sY>>), None, Absent)
gBad  == Rec(ListV(<<sBad>>), ListV(<<>>), None, Absent)

\* entries of .mcp.json and of the file stores, as people write them
pStr  == Rec(StrV(sN), ListV(<<sY>>), Absent, Absent)
pUrl  == Rec(Absent, Absent, Absent, StrV(<<"h">>))
pList == Rec(ListV(<<sU>>), Absent, Absent, Absent)
pFull == Rec(ListV(<<sN, sY>>), Absent, Absent, Absent)

\* the dicts that give name a a record of optA or none, and b one of optB or none
PartialMaps(optA, optB) ==
    UNION { { m \in [S -> optA \cup optB] :
                \A n \in S : m[n] \in (IF n = nA THEN optA ELSE optB) } :
            S \in SUBSET Names }

OkDoc(servers) == Doc("ok", TRUE, servers, 7, TRUE)

GlobalDocs  == { OkDoc(m) : m \in PartialMaps({gNone, gArgs, gBad}, {}) }
ProjectDocs == { OkDoc(m) : m \in PartialMaps({pStr, pUrl}, {pList, pUrl}) } \cup {MissingDoc}
StoreDocs   == { OkDoc(m) : m \in PartialMaps({gArgs, pFull}, {pList}) }
               \cup { MissingDoc, Doc("corrupt", FALSE, EmptyMap, 0, TRUE),
                      Doc("ok", FALSE, EmptyMap, 7, TRUE),
                      Doc("ok", TRUE, [n \in {nB} |-> pList], 7, FALSE) }

\* the client definition of the CLI client c and its tool t
TemplateOf(words) == Join(words, <<" ">>)
cliCommands ==
    [k \in {"list_mcp", "add_mcp", "remove_mcp", "get_mcp"} |->
        CASE k = "list_mcp"   -> TemplateOf(<< <<"t">>, <<"list">> >>)
          [] k = "add_mcp"    -> TemplateOf(<< <<"t">>, <<"add">>, <<"{name}">>,
                                               <<"{env_flags}">>, <<"{command_args}">> >>)
          [] k = "remove_mcp" -> TemplateOf(<< <<"t">>, <<"remove">>, <<"{name}">> >>)
          [] OTHER            -> TemplateOf(<< <<"t">>, <<"get">>, <<"{name}">> >>)]

cId == <<"c">>
Clients == [c \in {cId} |-> ClientConfig(<<"C">>, "cli", <<>>, cliCommands)]

ToolStates ==
    { Tool(<<"t">>, m, <<"scope:", " ", "local">>, fault) :
        m \in PartialMaps({<<sN>>, <<sN, sY>>}, {<<sU>>}), fault \in {"none", "exit1"} }

F1Path == <<"/f1.json">>
fileLoc == Location(F1Path, <<"f1">>, "file")
cliLoc  == Location(<<"cli:", "c">>, cId, "cli")
projLoc == Location(ProjectPath, <<"proj">>, "file")

LocationLists == { <<fileLoc, cliLoc>>, <<cliLoc, projLoc, fileLoc>> }

Options(global_only, project_only, specific_location) ==
    [dry_run |-> FALSE, global_only |-> global_only, project_only |-> project_only,
     specific_location |-> specific_location]

SyncInit ==
    /\ \E g \in GlobalDocs, p \in ProjectDocs, f \in StoreDocs :
          files = [q \in {GlobalPath, ProjectPath, F1Path} |->
                     IF q = GlobalPath THEN g ELSE IF q = ProjectPath THEN p ELSE f]
    /\ locations \in LocationLists
    /\ clients = Clients
    /\ tools \in [{cId} -> ToolStates]
    /\ pc = "idle"
    /\ opts = Options(FALSE, FALSE, <<>>)
    /\ master_servers = EmptyMap
    /\ todo = <<>>
    /\ idx = 1
    /\ result = EmptyResult
    /\ steps = <<>>
    /\ history = <<>>

SpecSync == SyncInit /\ [][SyncNext]_vars

\* sync_all called with its scope flags and with a specific location, over
\* scopes that define the same names differently
gEnv   == Rec(ListV(<<sN>>), ListV(<<sY>>), DictV(<< <<"h">> >>), Absent)
gEmpty == Rec(ListV(<<>>), Absent, Absent, Absent)

ScopedGlobalDocs  == { OkDoc(m) : m \in PartialMaps({gEnv, gEmpty}, {gArgs}) }
ScopedProjectDocs == { OkDoc(m) : m \in PartialMaps({pList, pUrl}, {pStr}) }
                     \cup { MissingDoc, Doc("corrupt", FALSE, EmptyMap, 0, TRUE) }

OptionsInit ==
    /\ \E g \in ScopedGlobalDocs, p \in ScopedProjectDocs :
          files = [q \in {GlobalPath, ProjectPath, F1Path} |->
                     IF q = GlobalPath THEN g
                     ELSE IF q = ProjectPath THEN p
                     ELSE OkDoc([n \in {nB} |-> pList])]
    /\ locations = <<cliLoc, projLoc, fileLoc>>
    /\ clients = Clients
    /\ tools = [c \in {cId} |->
                  Tool(<<"t">>, [n \in {nA} |-> <<sN>>], <<"scope:", " ", "local">>, "none")]
    /\ pc = "idle"
    /\ \E global_only \in BOOLEAN, project_only \in BOOLEAN,
          specific_location \in {<<>>, <<"f1">>, <<"proj">>} :
          opts = Options(global_only, project_only, specific_location)
    /\ master_servers = EmptyMap
    /\ todo = <<>>
    /\ idx = 1
    /\ result = EmptyResult
    /\ steps = <<>>
    /\ history = <<>>

SpecOptions == OptionsInit /\ [][SyncNext]_vars

\* sync_all cut short by the user, over the same stores and options
SpecInterrupt == OptionsInit /\ [][InterruptNext]_vars

\* ------------------------------------------------------------------------
\* Calls of the CLIExecutor operations
\* ------------------------------------------------------------------------

\* the number of executor calls of one behaviour
MaxCalls == 2

\* the exception subprocess.run raises for a process that ends with status,
\* "" when it returns
ExceptionOf(status) ==
    CASE status = "timeout"  -> "TimeoutExpired"
      [] status = "notfound" -> "FileNotFoundError"
      [] OTHER               -> ""

\* except clauses without the closing `except Exception`
CaughtWithoutCatchAll(exception) == exception = "TimeoutExpired"

\* the except clauses of the executor's operations: TimeoutExpired,
\* (SubprocessError, ValueError | FileNotFoundError), Exception
Caught(exception) == exception \in {"TimeoutExpired", "FileNotFoundError"}

\* an exception of one of the spawned processes leaves the call
Escapes(tool, spawned) ==
    \E k \in 1..Len(spawned) :
        LET exception == ExceptionOf(Spawn(tool, spawned[k]).status)
        IN  exception # "" /\ ~Caught(exception)

\* the call is recorded in steps with the template it used, the env_vars it
\* was given, the value it returned (when no exception escapes), the value it
\* returns on failure and the argument vectors spawned
ExecCall(op, client_id, key, name, command, env_vars, out, failure) ==
    /\ Len(steps) < MaxCalls
    /\ tools' = [tools EXCEPT ![client_id] = out.tool]
    /\ steps' = Append(steps,
                  [kind |-> op, client |-> client_id,
                   template |-> Template(clients[client_id], key), name |-> name,
                   command |-> command, env |-> env_vars, ret |-> out.ret,
                   raised |-> Escapes(tools[client_id], out.spawned), failure |-> failure, spawned |-> out.spawned,
                   before |-> tools[client_id], after |-> out.tool])
    /\ UNCHANGED <<files, locations, clients, pc, opts, master_servers, todo, idx,
                   result, history>>

ExecIsCliAvailable ==
    \E c \in DOMAIN clients :
        \E out \in {IsCliAvailable(clients[c], tools[c])} :
            ExecCall("is_cli_available", c, "list_mcp", <<>>, <<>>, None, out, FALSE)

ExecGetMcpServers ==
    \E c \in DOMAIN clients :
        \E out \in {GetMcpServers(c, clients[c], tools[c])} :
            ExecCall("get_mcp_servers", c, "list_mcp", <<>>, <<>>, None, out,
                     [ok |-> FALSE, servers |-> EmptyMap])

\* the commands and env dicts add_mcp_server is called with: no env, an
\* identifier key next to a key that starts with a digit, a key that ends in
\* a newline; a launch argv with a blank argument
AddInputs ==
    { <<cmd, None>> : cmd \in {<<sN>>, <<sBad, sY>>, <<sN, <<" ">>, sY>>} } \cup
    { << <<sN>>, DictV(ks) >> : ks \in { << <<"1", "K">>, <<"K">> >>, << <<"K", NL>> >> } }

ExecAddMcpServer ==
    \E c \in DOMAIN clients, name \in Names, in \in AddInputs :
        \E out \in {AddMcpServer(c, clients[c], name, in[1], in[2], <<"local">>,
                                  tools[c])} :
            ExecCall("add_mcp_server", c, "add_mcp", name, in[1], in[2], out, FALSE)

ExecRemoveMcpServer ==
    \E c \in DOMAIN clients, name \in Names :
        \E out \in {RemoveMcpServer(c, clients[c], name, tools[c])} :
            ExecCall("remove_mcp_server", c, "remove_mcp", name, <<>>, None, out, FALSE)

ExecDetectServerScope ==
    \E c \in DOMAIN clients, name \in Names :
        \E out \in {DetectServerScope(c, clients[c], name, tools[c])} :
            ExecCall("_detect_server_scope", c, "get_mcp", name, <<>>, None, out, <<"local">>)

ExecNext ==
    \/ ExecIsCliAvailable
    \/ ExecGetMcpServers
    \/ ExecAddMcpServer
    \/ ExecRemoveMcpServer
    \/ ExecDetectServerScope

\* the templates of a client whose tool is run as exe
cliCommandsOf(exe) ==
    [k \in {"list_mcp", "add_mcp", "remove_mcp", "get_mcp"} |->
        CASE k = "list_mcp"   -> TemplateOf(<< exe, <<"list">> >>)
          [] k = "add_mcp"    -> TemplateOf(<< exe, <<"add">>, <<"{name}">>,
                                               <<"{env_flags}">>, <<"{command_args}">> >>)
          [] k = "remove_mcp" -> TemplateOf(<< exe, <<"remove">>, <<"{name}">> >>)
          [] OTHER            -> TemplateOf(<< exe, <<"get">>, <<"{name}">> >>)]

\* what the get command prints and how the tool's processes end: a marker in
\* either case, no marker, nothing; a marker with exit status 1, a timeout
ToolBehaviours ==
    { <<scope, "none">> :
        scope \in { <<"scope:", " ", "local">>, <<"SCOPE:", " ", "USER">>,
                    <<"x", NL, "scope:", " ", "PROJECT">>, <<"scope:", "user">>, <<>> } }
    \cup { << <<"SCOPE:", " ", "USER">>, "exit1" >>, << <<>>, "timeout" >> }

\* the servers the tool holds: none, one, two of which one has a command
\* line with an apostrophe
ExecServers ==
    { EmptyMap, [n \in {nA} |-> <<sN>>],
      [n \in Names |-> IF n = nA THEN <<sN, sQ>> ELSE <<sU>>] }

\* executables a template names: a bare name and a path
Executables == { <<"t">>, <<"/", "t">> }

ExecInit ==
    /\ \E exe \in Executables :
          clients = [c \in {cId} |->
                        ClientConfig(<<"C">>, "cli", <<>>, cliCommandsOf(exe))]
    /\ \E exe \in Executables, m \in ExecServers, b \in ToolBehaviours :
          tools = [c \in {cId} |-> Tool(exe, m, b[1], b[2])]
    /\ files = [q \in {GlobalPath} |-> MissingDoc]
    /\ locations = <<cliLoc>>
    /\ pc = "idle"
    /\ opts = Options(FALSE, FALSE, <<>>)
    /\ master_servers = EmptyMap
    /\ todo = <<>>
    /\ idx = 1
    /\ result = EmptyResult
    /\ steps = <<>>
    /\ history = <<>>

SpecExec == ExecInit /\ [][ExecNext]_vars

\* ------------------------------------------------------------------------
\* Settings.add_location and ClientRepository.discover_clients
\* ------------------------------------------------------------------------

\* Path(path).stem: the last component without its suffix
Stem(path) ==
    LET slashes == {i \in 1..Len(path) : path[i] = "/"}
        last == IF slashes = {} THEN 0
                ELSE CHOOSE i \in slashes : \A j \in slashes : j <= i
        base == SubSeq(path, last + 1, Len(path))
    IN  IF Len(base) >= 2 /\ base[Len(base)] = ".json"
        THEN SubSeq(base, 1, Len(base) - 1) ELSE base

\* an add_location that does not look for the path in the registry
AddLocationAlways(registry, path, name) ==
    [ret |-> TRUE, locations |-> Append(registry, Location(path, name, "file"))]

\* Settings.add_location(path, name): the value returned and the registry;
\* name <<>> is None
AddLocation(registry, path, name) ==
    IF \E i \in 1..Len(registry) : registry[i].path = path
    THEN [ret |-> FALSE, locations |-> registry]
    ELSE [ret |-> TRUE,
          locations |-> Append(registry,
              Location(path, IF name = <<>> THEN Stem(path) ELSE name, "file"))]

\* Settings.remove_location(path): the value returned and the registry
RemoveLocation(registry, path) ==
    LET kept == SelectSeq(registry, LAMBDA loc : loc.path # path)
    IN  [ret |-> Len(kept) < Len(registry), locations |-> kept]

\* the order in which the client definitions are enumerated
dId == <<"d">>
ClientOrder == <<cId, dId>>
ClientIds(defs) == SelectSeq(ClientOrder, LAMBDA c : c \in DOMAIN defs)

\* the tool of a client; a client without a tool has no executable to run
ToolOf(ts, client_id) ==
    IF client_id \in DOMAIN ts THEN ts[client_id] ELSE Tool(<<>>, EmptyMap, <<>>, "none")

SetTool(ts, client_id, tool) ==
    IF client_id \in DOMAIN ts THEN [ts EXCEPT ![client_id] = tool] ELSE ts

\* discover_clients: the locations found, the tools after the probes and the
\* argument vectors spawned
RECURSIVE DiscoverClients(_, _, _, _)
DiscoverClients(ids, defs, fs, acc) ==
    IF ids = <<>> THEN acc
    ELSE LET client_id     == Head(ids)
             client_config == defs[client_id]
             found(path) == Append(acc.found, [path |-> path, name |-> client_id,
                                               client_name |-> client_config.name])
             Probed(out) ==
                 [acc EXCEPT !.found = IF out.ret THEN found(<<"cli:">> \o client_id) ELSE @,
                             !.tools = SetTool(@, client_id, out.tool),
                             !.spawned = @ \o out.spawned]
             next(a) == DiscoverClients(Tail(ids), defs, fs, a)
         IN  IF client_config.config_type = "cli"
             THEN next(Probed(IsCliAvailable(client_config, ToolOf(acc.tools, client_id))))
             ELSE IF client_config.path # <<>>
                     /\ FileAt(fs, client_config.path).state # "missing"
             THEN next([acc EXCEPT !.found = found(client_config.path)])
             ELSE next(acc)

\* the registry after add_location of every discovered client
RECURSIVE AddDiscovered(_, _)
AddDiscovered(found, registry) ==
    IF found = <<>> THEN registry
    ELSE AddDiscovered(Tail(found),
                       AddLocation(registry, Head(found).path, Head(found).client_name).locations)

\* ------------------------------------------------------------------------
\* SyncEngine.vacuum_configs
\* ------------------------------------------------------------------------

\* the choice for a name found again: "existing" or "new"; answers are what
\* _resolve_conflict returns, call after call
ResolveChoiceLast(auto_resolve, answers, asked) == "new"

ResolveChoice(auto_resolve, answers, asked) ==
    IF auto_resolve = "first" THEN "existing"
    ELSE IF auto_resolve = "last" THEN "new"
    ELSE answers[asked + 1]

\* a conflict entry that names the sources the wrong way round
ConflictEntrySwapped(server_name, choice, existing_source, source) ==
    IF choice = "new"
    THEN [server |-> server_name, chosen_source |-> existing_source,
          rejected_source |-> source]
    ELSE [server |-> server_name, chosen_source |-> source,
          rejected_source |-> existing_source]

\* the entry appended to result.conflicts for a resolved conflict
ConflictEntry(server_name, choice, existing_source, source) ==
    IF choice = "new"
    THEN [server |-> server_name, chosen_source |-> source,
          rejected_source |-> existing_source]
    ELSE [server |-> server_name, chosen_source |-> existing_source,
          rejected_source |-> source]

\* the loop over the servers of one scanned store
RECURSIVE ScanServers(_, _, _, _, _, _)
ScanServers(names, servers, source, auto_resolve, answers, acc) ==
    IF names = <<>> THEN acc
    ELSE LET server_name == Head(names)
             entry  == [config |-> servers[server_name], source |-> source]
             Resolved(existing, choice) ==
                 [acc EXCEPT
                     !.discovered = IF choice = "new"
                                    THEN [@ EXCEPT ![server_name] = entry] ELSE @,
                     !.conflicts = Append(@,
                         ConflictEntry(server_name, choice, existing.source, source)),
                     !.asked = IF auto_resolve \in {"first", "last"} THEN @ ELSE @ + 1]
             after ==
                 IF server_name \in DOMAIN acc.discovered
                 THEN Resolved(acc.discovered[server_name],
                               ResolveChoice(auto_resolve, answers, acc.asked))
                 ELSE [acc EXCEPT !.discovered = Overlay(@, [n \in {server_name} |-> entry]),
                                  !.order = Append(@, server_name)]
         IN  ScanServers(Tail(names), servers, source, auto_resolve, answers, after)

\* Path(path).name == ".mcp.json"
PathNameIsMcpJson(path) ==
    \/ path = ProjectPath
    \/ Len(path) >= 2 /\ path[Len(path)] = ".mcp.json" /\ path[Len(path) - 1] = "/"

\* the scan of the registered locations, in registration order
RECURSIVE ScanLocations(_, _, _, _, _, _)
ScanLocations(locs, defs, fs, auto_resolve, answers, acc) ==
    IF locs = <<>> THEN acc
    ELSE LET location  == Head(locs)
             client_id == ClientId(location)
             doc == FileAt(fs, location.path)
             Scanned(servers, a) ==
                 ScanServers(Keys(servers), servers, location.name, auto_resolve, answers, a)
             Listed(out) ==
                 IF out.ret.ok /\ out.ret.servers # EmptyMap
                 THEN Scanned(out.ret.servers,
                              [acc EXCEPT !.tools = SetTool(@, client_id, out.tool),
                                          !.spawned = @ \o out.spawned])
                 ELSE [acc EXCEPT !.tools = SetTool(@, client_id, out.tool),
                                  !.spawned = @ \o out.spawned]
             next(a) == ScanLocations(Tail(locs), defs, fs, auto_resolve, answers, a)
         IN  IF IsCliLocation(location)
             THEN IF client_id \in DOMAIN defs
                  THEN next(Listed(GetMcpServers(client_id, defs[client_id],
                                                 ToolOf(acc.tools, client_id))))
                  ELSE next(acc)
             ELSE IF PathNameIsMcpJson(location.path) THEN next(acc)
             ELSE IF ReadJsonConfig(doc) = None THEN next(acc)
             ELSE next(Scanned(ServersOf(doc), acc))

\* VacuumResult(imported_servers={}, conflicts=[], errors=[], skipped_servers=[])
EmptyVacuumResult ==
    [imported_servers |-> EmptyMap, conflicts |-> <<>>, errors |-> <<>>,
     skipped_servers |-> <<>>]

\* an import that skips no name for being in the global scope already
SkipsExistingNever(skip_existing, server_name, global_config) == FALSE

\* skip_existing and server_name in global_config.mcpServers
SkipsExisting(skip_existing, server_name, global_config) ==
    skip_existing /\ server_name \in DOMAIN global_config

\* the import loop over discovered_servers, in insertion order
RECURSIVE ImportServers(_, _, _, _)
ImportServers(order, discovered, skip_existing, acc) ==
    IF order = <<>> THEN acc
    ELSE LET server_name == Head(order)
             server_info == discovered[server_name]
             config      == server_info.config
             config_data == IF config["command"].kind = "str"
                            THEN [config EXCEPT !["command"] = ListV(@.v)]
                            ELSE config
             skipped  == [acc EXCEPT !.result.skipped_servers = Append(@, server_name)]
             imported ==
                 [acc EXCEPT
                     !.global_config =
                         Overlay(@, [n \in {server_name} |-> MCPServerConfig(config_data)]),
                     !.result.imported_servers =
                         Overlay(@, [n \in {server_name} |-> server_info.source])]
             failed   == [acc EXCEPT !.result.errors =
                             Append(@, [location |-> server_info.source,
                                        error |-> "Failed to import", server |-> server_name])]
             next(a) == ImportServers(Tail(order), discovered, skip_existing, a)
         IN  IF SkipsExisting(skip_existing, server_name, acc.global_config)
             THEN next(skipped)
             ELSE IF config["url"].kind # "absent" /\ config["command"].kind = "absent"
             THEN next(skipped)
             ELSE IF MCPServerConfigValid(config_data) THEN next(imported)
             ELSE next(failed)

\* the outcome of vacuum_configs: whether it raised, the VacuumResult, the
\* registry, the tools and the global document afterwards, whether the global
\* document was written, the calls of _resolve_conflict and the vectors spawned
VacuumConfigsOutcome(registry, defs, ts, fs, auto_resolve, skip_existing, answers) ==
    LET global_doc == FileAt(fs, GlobalPath)
        Found(disc) ==
            LET scanned == AddDiscovered(disc.found, registry)
                Gathered(scan) ==
                    LET start == [global_config |-> GetGlobalConfig(global_doc),
                                  result |-> [EmptyVacuumResult EXCEPT
                                                 !.conflicts = scan.conflicts]]
                        done(raised, wrote, res, global) ==
                            [raised |-> raised, result |-> res, locations |-> scanned,
                             tools |-> scan.tools, global |-> global, wrote |-> wrote,
                             asked |-> scan.asked, spawned |-> scan.spawned]
                        Imported(imp) ==
                            IF global_doc.writable
                            THEN done(FALSE, TRUE, imp.result,
                                      Doc("ok", TRUE, imp.global_config, 0, TRUE))
                            ELSE done(TRUE, FALSE, imp.result, global_doc)
                    IN  IF scan.order = <<>>
                        THEN done(FALSE, FALSE, start.result, global_doc)
                        ELSE Imported(ImportServers(scan.order, scan.discovered,
                                                    skip_existing, start))
            IN  Gathered(ScanLocations(scanned, defs, fs, auto_resolve, answers,
                                       [discovered |-> EmptyMap, order |-> <<>>,
                                        conflicts |-> <<>>, asked |-> 0,
                                        tools |-> disc.tools, spawned |-> disc.spawned]))
    IN  Found(DiscoverClients(ClientIds(defs), defs, fs,
                              [found |-> <<>>, tools |-> ts, spawned |-> <<>>]))

\* the number of vacuum_configs calls of one behaviour
MaxVacuums == 1

\* the number of answers _resolve_conflict can be asked for in one call
MaxAnswers == 3

AutoResolve == {"first", "last", "none"}

\* one call of vacuum_configs; the call is recorded in history with the state
\* it started from
VacuumConfigs ==
    /\ pc = "idle"
    /\ Len(history) < MaxVacuums
    /\ \E auto_resolve \in AutoResolve, skip_existing \in BOOLEAN :
       \E answers \in (IF auto_resolve \in {"first", "last"} THEN {<<>>}
                       ELSE [1..MaxAnswers -> {"existing", "new"}]) :
       \E out \in {VacuumConfigsOutcome(locations, clients, tools, files, auto_resolve,
                                         skip_existing, answers)} :
          /\ locations' = out.locations
          /\ tools' = out.tools
          /\ files' = IF out.wrote
                      THEN Overlay(files, [q \in {GlobalPath} |-> out.global])
                      ELSE files
          /\ history' = Append(history,
                [kind |-> "vacuum", auto_resolve |-> auto_resolve,
                 skip_existing |-> skip_existing,
                 answers |-> SubSeq(answers, 1, out.asked),
                 raised |-> out.raised, result |-> out.result,
                 scanned |-> out.locations, files |-> files, tools |-> tools,
                 asked |-> out.asked, spawned |-> out.spawned])
    /\ UNCHANGED <<clients, pc, opts, master_servers, todo, idx, result, steps>>

\* the stores vacuum_configs finds: the file store f1, the file client d with
\* its document f2, the CLI client c
F2Path == <<"/f2.json">>
VacuumClients ==
    [c \in {cId, dId} |->
        IF c = cId THEN ClientConfig(<<"C">>, "cli", <<>>, cliCommands)
        ELSE ClientConfig(<<"D">>, "file", F2Path, <<>>)]

VacuumInit ==
    /\ \E g \in {MissingDoc, OkDoc([n \in {nA} |-> gArgs]), OkDoc([n \in {nB} |-> gEmpty]),
                  OkDoc([n \in {nA} |-> pList]),
                  OkDoc([n \in Names |-> IF n = nA THEN gArgs ELSE gEmpty]),
                  Doc("ok", TRUE, [n \in {nB} |-> gNone], 7, FALSE)},
          f1 \in {OkDoc(m) : m \in PartialMaps({pStr, pUrl}, {pList})},
          f2 \in {MissingDoc, OkDoc([n \in {nA} |-> pFull]), OkDoc([n \in {nA} |-> gEmpty]),
                  OkDoc([n \in {nB} |-> gEmpty])} :
          files = [q \in {GlobalPath, ProjectPath, F1Path, F2Path} |->
                     IF q = GlobalPath THEN g
                     ELSE IF q = ProjectPath THEN OkDoc([n \in {nB} |-> pFull])
                     ELSE IF q = F1Path THEN f1 ELSE f2]
    /\ locations \in { <<fileLoc>>, <<cliLoc, fileLoc>>, <<projLoc, fileLoc>> }
    /\ clients = VacuumClients
    /\ \E m \in PartialMaps({<<sN>>}, {<<sU>>}), fault \in {"none", "exit1"} :
          /\ (fault = "exit1" => m = EmptyMap)
          /\ tools = [c \in {cId} |-> Tool(<<"t">>, m, <<"scope:", " ", "local">>, fault)]
    /\ pc = "idle"
    /\ opts = Options(FALSE, FALSE, <<>>)
    /\ master_servers = EmptyMap
    /\ todo = <<>>
    /\ idx = 1
    /\ result = EmptyResult
    /\ steps = <<>>
    /\ history = <<>>

SpecVacuum == VacuumInit /\ [][VacuumConfigs]_vars

\* ------------------------------------------------------------------------
\* The location registry: add_location and remove_location called in any order
\* ------------------------------------------------------------------------

MaxEdits == 3

\* the paths and the names the calls are made with
P2Path == <<"/", "d", "/", "q", ".json">>
EditPaths == {F1Path, <<"/", "p", ".json">>, P2Path, <<"cli:", "c">>}

AddLocationCall ==
    /\ Len(history) < MaxEdits
    /\ \E path \in EditPaths, name \in {<<>>, <<"x">>} :
       \E out \in {AddLocation(locations, path, name)} :
          /\ locations' = out.locations
          /\ history' = Append(history,
                [kind |-> "add_location", path |-> path, name |-> name,
                 ret |-> out.ret, before |-> locations, after |-> out.locations])
    /\ UNCHANGED <<files, clients, tools, pc, opts, master_servers, todo, idx, result,
                   steps>>

RemoveLocationCall ==
    /\ Len(history) < MaxEdits
    /\ \E path \in EditPaths :
       \E out \in {RemoveLocation(locations, path)} :
          /\ locations' = out.locations
          /\ history' = Append(history,
                [kind |-> "remove_location", path |-> path, name |-> <<>>,
                 ret |-> out.ret, before |-> locations, after |-> out.locations])
    /\ UNCHANGED <<files, clients, tools, pc, opts, master_servers, todo, idx, result,
                   steps>>

LocationsNext == AddLocationCall \/ RemoveLocationCall

LocationsInit ==
    /\ locations \in { <<>>, <<fileLoc>>, <<cliLoc, fileLoc>> }
    /\ files = [q \in {GlobalPath} |-> MissingDoc]
    /\ clients = Clients
    /\ tools = [c \in {cId} |-> Tool(<<"t">>, EmptyMap, <<>>, "none")]
    /\ pc = "idle"
    /\ opts = Options(FALSE, FALSE, <<>>)
    /\ master_servers = EmptyMap
    /\ todo = <<>>
    /\ idx = 1
    /\ result = EmptyResult
    /\ steps = <<>>
    /\ history = <<>>

SpecLocations == LocationsInit /\ [][LocationsNext]_vars

\* ------------------------------------------------------------------------
\* main: `add-server NAME --cmd ... --args ... --env ... --scope global`
\* ------------------------------------------------------------------------

\* s.split(sep): the pieces between the separators, empty ones included
RECURSIVE SplitKeep(_, _, _)
SplitKeep(s, sep, cur) ==
    IF s = <<>> THEN <<cur>>
    ELSE IF Head(s) = sep THEN <<cur>> \o SplitKeep(Tail(s), sep, <<>>)
    ELSE SplitKeep(Tail(s), sep, Append(cur, Head(s)))

\* _build_server_config_from_args(args): server_cmd, args and env are the
\* strings of the command line, <<>> for an option that was not given; of
\* the env dict the keys are kept
BuildServerConfigFromArgs(server_cmd, args, env) ==
    LET arglist == [i \in 1..Len(SplitKeep(args, ",", <<>>)) |->
                       Strip(SplitKeep(args, ",", <<>>)[i])]
        pairs == SelectSeq(SplitKeep(env, ",", <<>>), LAMBDA pair : IndexOf(pair, "=") > 0)
        keys  == [i \in 1..Len(pairs) |->
                     Strip(SubSeq(pairs[i], 1, IndexOf(pairs[i], "=") - 1))]
        first == {i \in 1..Len(keys) : \A j \in 1..(i - 1) : keys[j] # keys[i]}
        env_vars == [i \in 1..Cardinality(first) |->
                        keys[CHOOSE k \in first :
                                Cardinality({j \in first : j < k}) = i - 1]]
    IN  Rec(StrV(server_cmd),
            IF args # <<>> THEN ListV(arglist) ELSE Absent,
            IF env # <<>> /\ env_vars # <<>> THEN DictV(env_vars) ELSE Absent,
            Absent)

\* the number of add-server commands of one behaviour
MaxAdds == 2

\* the inline mode of the add-server command with scope global:
\* _build_server_config_from_args, then SyncEngine.add_server_to_global, which
\* raises when MCPServerConfig(**config) does not validate or the write fails
AddServerInline ==
    /\ Len(history) < MaxAdds
    /\ \E name \in Names, server_cmd \in {<<"n">>, <<"/", "n">>},
          args \in {<<>>, <<"a">>, <<"a", ",", " ", "b">>},
          env \in {<<>>, <<"K", "=", "1">>, <<"K", "=", "1", ",", "b">>} :
       \E config \in {BuildServerConfigFromArgs(server_cmd, args, env)} :
          LET doc == FileAt(files, GlobalPath)
              accepted == MCPServerConfigValid(config)
          IN  /\ files' =
                    IF accepted /\ doc.writable
                    THEN Overlay(files, [q \in {GlobalPath} |->
                            Doc("ok", TRUE,
                                Overlay(GetGlobalConfig(doc),
                                        [n \in {name} |-> MCPServerConfig(config)]),
                                0, TRUE)])
                    ELSE files
              /\ history' = Append(history,
                    [kind |-> "add_server", name |-> name, server_cmd |-> server_cmd,
                     args |-> args, env |-> env, config |-> config,
                     raised |-> ~(accepted /\ doc.writable)])
    /\ UNCHANGED <<locations, clients, tools, pc, opts, master_servers, todo, idx,
                   result, steps>>

\* the command is given to a program that has just started
SpecAddServer == LocationsInit /\ [][AddServerInline]_vars

\* ------------------------------------------------------------------------
\* Properties of sync_all and of its steps
\* ------------------------------------------------------------------------

\* the step the loop has just made, when it has made one
InStep == pc = "loop" /\ steps # <<>>
LastStep == steps[Len(steps)]

\* what the last step appended to the result
NewConflicts == SubSeq(result.conflicts, Len(LastStep.result0.conflicts) + 1,
                       Len(result.conflicts))
NewUpdated   == SubSeq(result.updated_locations,
                       Len(LastStep.result0.updated_locations) + 1,
                       Len(result.updated_locations))
NewErrors    == SubSeq(result.errors, Len(LastStep.result0.errors) + 1,
                       Len(result.errors))

\* the number of entries of a sequence that satisfy a test
Count(seq, Test(_)) == Cardinality({i \in 1..Len(seq) : Test(seq[i])})

\* C3: after a non-dry-run _sync_location that returns on a readable file
\* store, the store's map is every master entry without _source plus every
\* previous entry the master list does not name; one conflict is recorded for
\* each name in both whose stored record differs from the master's and none
\* for any other name; the store is marked updated iff its map changed.
C3_FileReconcile ==
    (InStep /\ LastStep.kind = "file" /\ ~opts.dry_run
        /\ LastStep.before.state = "ok" /\ ~LastStep.raised) =>
    LET path == LastStep.location.path
        prev == ServersOf(LastStep.before)
        now  == ServersOf(FileAt(files, path))
    IN  /\ DOMAIN now = (DOMAIN master_servers) \cup (DOMAIN prev)
        /\ \A n \in DOMAIN master_servers :
              /\ \A f \in Fields : now[n][f] = master_servers[n][f]
              /\ DOMAIN now[n] = Fields
        /\ \A n \in (DOMAIN prev) \ (DOMAIN master_servers) : now[n] = prev[n]
        /\ \A n \in Names :
              Count(NewConflicts, LAMBDA c : c.server = n) =
                 IF n \in DOMAIN prev /\ n \in DOMAIN master_servers
                    /\ \E f \in Fields : prev[n][f] # master_servers[n][f]
                 THEN 1 ELSE 0
        /\ \A i \in 1..Len(NewConflicts) : NewConflicts[i].location = path
        /\ NewUpdated = IF now # prev THEN <<path>> ELSE <<>>

\* C3 witness: store {a: old, b: local} under a master list that has a with
\* another record: a overridden, b kept, one conflict, the store marked updated
C3_Witness ==
    /\ InStep /\ LastStep.kind = "file" /\ ~opts.dry_run /\ ~LastStep.raised
    /\ LastStep.before.state = "ok"
    /\ DOMAIN ServersOf(LastStep.before) = {nA, nB}
    /\ DOMAIN master_servers = {nA}
    /\ Len(NewConflicts) = 1
    /\ NewUpdated = <<LastStep.location.path>>
    /\ ServersOf(FileAt(files, LastStep.location.path))[nB] = ServersOf(LastStep.before)[nB]
    /\ ServersOf(FileAt(files, LastStep.location.path))[nA] # ServersOf(LastStep.before)[nA]

\* C6: sync_all processes the selected stores one by one in registration
\* order, each exactly once; a step that raises leaves exactly one errors
\* entry naming its store, and the stores after it are still processed.
C6_EveryStoreOnce ==
    /\ pc = "loop" =>
          /\ Len(steps) = idx - 1
          /\ idx <= Len(todo) + 1
          /\ \A i \in 1..Len(steps) : steps[i].location = todo[i]
          /\ InStep /\ LastStep.raised =>
                /\ Len(NewErrors) = 1
                /\ NewErrors[1].location = LastStep.location.path
    /\ \A r \in 1..Len(history) :
          /\ Len(history[r].steps) = Len(history[r].todo)
          /\ \A i \in 1..Len(history[r].todo) :
                history[r].steps[i].location = history[r].todo[i]
          /\ history[r].opts.specific_location = <<>> =>
                history[r].todo = SelectSeq(locations, LAMBDA l : l.path # ProjectPath)

\* C6 witness: a call that returned although its first store raised, its
\* second store processed all the same
C6_Witness ==
    \E r \in 1..Len(history) :
        /\ Len(history[r].steps) >= 2
        /\ history[r].steps[1].raised
        /\ Len(history[r].result.errors) >= 1
        /\ history[r].result.errors[1].location = history[r].todo[1].path

\* every document can be written and every tool's processes end normally
Healthy ==
    /\ \A q \in DOMAIN files : files[q].writable
    /\ \A c \in DOMAIN tools : tools[c].fault = "none"

\* C1: when sync_all is run twice without dry-run and nothing else changes a
\* store or a scope in between, the second run's updated_locations is empty.
C1_Idempotent ==
    (Healthy /\ Len(history) >= 2
        /\ ~history[1].opts.dry_run /\ ~history[2].opts.dry_run) =>
    history[2].result.updated_locations = <<>>

\* the executor calls of a finished run
RECURSIVE CallsOf(_)
CallsOf(ss) == IF ss = <<>> THEN <<>> ELSE Head(ss).calls \o CallsOf(Tail(ss))

\* C7: sync_all(dry_run=True) writes no store document and invokes neither
\* add nor remove, and its updated_locations and conflicts are those of a
\* non-dry run from the same state.
C7_DryRunSameReport ==
    /\ (pc = "loop" /\ opts.dry_run) =>
          \A i \in 1..Len(steps) :
              steps[i].calls = <<>> /\ steps[i].after = steps[i].before
    /\ (Healthy /\ Len(history) >= 2
          /\ history[1].opts.dry_run /\ ~history[2].opts.dry_run) =>
          /\ history[1].result.updated_locations = history[2].result.updated_locations
          /\ history[1].result.conflicts = history[2].result.conflicts

\* the canonical argument vector of a record: the executable head, given as a
\* string or as a list, followed by the args list, empty when there is none
Canonical(config) ==
    (IF config["command"].kind \in {"str", "list"} THEN config["command"].v ELSE <<>>)
    \o (IF config["args"].kind = "list" THEN config["args"].v ELSE <<>>)

\* the last step is a _sync_cli_location that listed the store's servers
InCliStep ==
    /\ InStep /\ LastStep.kind = "cli"
    /\ LastStep.before.fault = "none"
    /\ ClientId(LastStep.location) \in DOMAIN clients

\* the records of the store the last CLI step started from
StoreRecords ==
    [n \in DOMAIN LastStep.before.servers |->
        Rec(ListV(LastStep.before.servers[n]), Absent, Absent, Absent)]

\* C8: _sync_cli_location compares a store server and the master server of
\* the same name as canonical argument vectors; the comparison never fails,
\* and a conflict is recorded iff the two vectors differ.
C8_CanonicalComparison ==
    InCliStep =>
        /\ LastStep.compared
        /\ ~LastStep.raised =>
              /\ \A n \in (DOMAIN StoreRecords) \cap (DOMAIN master_servers) :
                    Count(NewConflicts, LAMBDA c : c.server = n) =
                       IF Canonical(StoreRecords[n]) # Canonical(master_servers[n])
                       THEN 1 ELSE 0
              /\ \A i \in 1..Len(NewConflicts) :
                    /\ NewConflicts[i].location = LastStep.location.path
                    /\ NewConflicts[i].source =
                          master_servers[NewConflicts[i].server]["_source"]

\* the command-bearing names of a dict of servers
CommandBearing(servers) == {n \in DOMAIN servers : servers[n]["url"].kind = "absent"}

\* the store and the master list name the same command-bearing servers with
\* the same canonical argument vectors
CliInSync ==
    /\ CommandBearing(StoreRecords) = CommandBearing(master_servers)
    /\ \A n \in CommandBearing(StoreRecords) \cap CommandBearing(master_servers) :
          Canonical(StoreRecords[n]) = Canonical(master_servers[n])

\* C9: _sync_cli_location marks the store updated iff the command-bearing
\* names differ or a shared name's canonical vector differs; when all match
\* it records no conflict and invokes neither add nor remove.
C9_UpdatedIffDiffers ==
    InCliStep =>
        /\ NewUpdated = IF CliInSync THEN <<>> ELSE <<LastStep.location.path>>
        /\ CliInSync => NewConflicts = <<>> /\ LastStep.calls = <<>>

\* C10: a non-dry-run _sync_cli_location that finds changes invokes remove
\* exactly once for each store server that is absent from the command-bearing
\* subset of the master list, and for no other server.
C10_RemovesAbsent ==
    (InCliStep /\ ~opts.dry_run /\ NewUpdated # <<>>) =>
        \A n \in Names :
            Count(LastStep.calls, LAMBDA c : c.op = "remove" /\ c.name = n) =
               IF n \in DOMAIN StoreRecords /\ n \notin CommandBearing(master_servers)
               THEN 1 ELSE 0

\* the state sync_all's loop starts from: the master list just built
AtLoopStart == pc = "loop" /\ steps = <<>>

\* the servers each scope defines when sync_all starts
GlobalScope  == GetGlobalConfig(FileAt(files, GlobalPath))
ProjectScope == IF FileAt(files, ProjectPath).state = "ok"
                THEN ServersOf(FileAt(files, ProjectPath)) ELSE EmptyMap

\* C4: in the master list a name the project scope defines carries the
\* project's whole record, no field of a global record of that name, and
\* _source project; a name only the global scope defines carries _source
\* global; a scope excluded by its flag contributes no entry.
C4_ProjectReplacesGlobal ==
    AtLoopStart =>
        LET fromGlobal  == IF opts.project_only THEN {} ELSE DOMAIN GlobalScope
            fromProject == IF opts.global_only THEN {} ELSE DOMAIN ProjectScope
        IN  /\ DOMAIN master_servers = fromGlobal \cup fromProject
            /\ \A n \in fromProject :
                  /\ master_servers[n]["_source"] = "project"
                  /\ \A f \in Fields : master_servers[n][f] = ProjectScope[n][f]
            /\ \A n \in fromGlobal \ fromProject :
                  /\ master_servers[n]["_source"] = "global"
                  /\ \A f \in Fields : master_servers[n][f] = GlobalScope[n][f]

\* C4 witness: both scopes included, a defined by both, the global record with
\* args and env and the project record without: the master entry has neither
C4_Witness ==
    /\ AtLoopStart /\ ~opts.global_only /\ ~opts.project_only
    /\ nA \in DOMAIN GlobalScope /\ nA \in DOMAIN ProjectScope
    /\ GlobalScope[nA]["args"].kind = "list" /\ GlobalScope[nA]["env"].kind = "dict"
    /\ ProjectScope[nA]["args"].kind = "absent"
    /\ master_servers[nA]["args"].kind = "absent"
    /\ master_servers[nA]["env"].kind = "absent"
    /\ master_servers[nA]["_source"] = "project"
    /\ nB \in DOMAIN GlobalScope /\ nB \notin DOMAIN ProjectScope
    /\ master_servers[nB]["_source"] = "global"

\* every character of the token is in [A-Za-z0-9_.-]
InExecutableAlphabet(token) ==
    \A i \in 1..Len(token) : token[i] \in AlnumAtoms \cup {"_", ".", "-"}

\* the executable token of a template: the first token of the argument vector
\* built from it
ExecutableToken(template) == ShlexSplit(template)[1]

\* the argument vectors of a recorded call that started a process: those whose
\* executable is the one the tool is installed as
Started(step) == SelectSeq(step.spawned, LAMBDA argv : argv[1] = step.before.exe)

\* C2: every CLIExecutor operation that spawns a process built from a command
\* template (availability probe, list, add, remove, scope detection) returns
\* its failure value and spawns no process when the executable token has a
\* character outside [A-Za-z0-9_.-].
C2_InvalidExecutableRefused ==
    \A i \in 1..Len(steps) :
        (steps[i].kind \in {"is_cli_available", "get_mcp_servers", "add_mcp_server",
                            "remove_mcp_server", "_detect_server_scope"}
            /\ ShlexSplit(steps[i].template) # <<>>
            /\ ~InExecutableAlphabet(ExecutableToken(steps[i].template))) =>
        (steps[i].ret = steps[i].failure /\ Started(steps[i]) = <<>>)

\* the servers a scanned store defines when the run of history entry h starts:
\* the mcpServers of a readable file store that is not a project file, the
\* servers a CLI store's tool lists
StoreDefines(h, i) ==
    LET loc == h.scanned[i]
        doc == FileAt(h.files, loc.path)
        client_id == ClientId(loc)
        tool == h.tools[client_id]
    IN  IF IsCliLocation(loc)
        THEN IF client_id \in DOMAIN clients /\ client_id \in DOMAIN h.tools
                /\ tool.fault = "none"
             THEN [n \in DOMAIN tool.servers |->
                     Rec(ListV(tool.servers[n]), Absent, Absent, Absent)]
             ELSE EmptyMap
        ELSE IF doc.state = "ok" /\ ~PathNameIsMcpJson(loc.path) THEN ServersOf(doc)
        ELSE EmptyMap

\* the scanned stores that define name n, by position in registration order
Definers(h, n) == {i \in 1..Len(h.scanned) : n \in DOMAIN StoreDefines(h, i)}

Earliest(h, n) == CHOOSE i \in Definers(h, n) : \A j \in Definers(h, n) : i <= j

\* a store's record as a global entry: the executable head as a list, args
\* and env None when the record has none, nothing else
AsGlobalEntry(config) ==
    Rec(ListV(config["command"].v),
        IF config["args"].kind = "list" THEN config["args"] ELSE None,
        IF config["env"].kind = "dict" THEN config["env"] ELSE None,
        Absent)

\* C5: vacuum_configs(auto_resolve="first") never calls _resolve_conflict, and
\* for every name that more than one scanned store defines, what is imported
\* into the global scope is the record of the earliest of these stores in
\* registration order, and imported_servers[name] names that store.
C5_FirstStoreWins ==
    \A r \in 1..Len(history) :
        LET h == history[r] IN
        (h.kind = "vacuum" /\ h.auto_resolve = "first" /\ ~h.raised) =>
            /\ h.asked = 0
            /\ \A n \in DOMAIN h.result.imported_servers :
                  Cardinality(Definers(h, n)) > 1 =>
                     /\ h.result.imported_servers[n] = h.scanned[Earliest(h, n)].name
                     /\ r = Len(history) =>
                           ServersOf(FileAt(files, GlobalPath))[n] =
                              AsGlobalEntry(StoreDefines(h, Earliest(h, n))[n])

\* C5 witness: a run with auto_resolve="first" in which three stores define a
\* with two different records, the earliest store's is imported
C5_Witness ==
    /\ history # <<>>
    /\ LET h == history[Len(history)] IN
          /\ h.kind = "vacuum" /\ h.auto_resolve = "first" /\ ~h.raised
          /\ Cardinality(Definers(h, nA)) = 3
          /\ nA \in DOMAIN h.result.imported_servers
          /\ \E j \in Definers(h, nA) :
                AsGlobalEntry(StoreDefines(h, j)[nA]) #
                   AsGlobalEntry(StoreDefines(h, Earliest(h, nA))[nA])
          /\ Len(h.result.conflicts) >= 2
          /\ ServersOf(FileAt(files, GlobalPath))[nA] =
                AsGlobalEntry(StoreDefines(h, Earliest(h, nA))[nA])

\* the global scope a run of vacuum_configs starts from and the one now
GlobalBefore(h) == GetGlobalConfig(FileAt(h.files, GlobalPath))
GlobalNow == GetGlobalConfig(FileAt(files, GlobalPath))

\* the names the scan of history entry h discovers
Discovered(h) == {n \in Names : Definers(h, n) # {}}

\* C11: vacuum_configs(skip_existing=True) puts every discovered name that is
\* in the global scope when the import starts into skipped_servers and not
\* into imported_servers, and leaves its global record as it was.
C11_SkipExisting ==
    \A r \in 1..Len(history) :
        LET h == history[r] IN
        (h.kind = "vacuum" /\ h.skip_existing /\ ~h.raised) =>
            \A n \in Discovered(h) \cap DOMAIN GlobalBefore(h) :
                /\ \E i \in 1..Len(h.result.skipped_servers) :
                      h.result.skipped_servers[i] = n
                /\ n \notin DOMAIN h.result.imported_servers
                /\ r = Len(history) =>
                      n \in DOMAIN GlobalNow /\ GlobalNow[n] = GlobalBefore(h)[n]

\* C11 witness: a skip_existing run that rewrote the global document for an
\* imported b while a, which a store defines with another record than the
\* global scope has, was skipped
C11_Witness ==
    /\ history # <<>>
    /\ LET h == history[Len(history)] IN
          /\ h.kind = "vacuum" /\ h.skip_existing /\ ~h.raised
          /\ nA \in Discovered(h) \cap DOMAIN GlobalBefore(h)
          /\ AsGlobalEntry(StoreDefines(h, Earliest(h, nA))[nA]) # GlobalBefore(h)[nA]
          /\ h.result.skipped_servers = <<nA>>
          /\ nB \in DOMAIN h.result.imported_servers
          /\ nB \in DOMAIN GlobalNow /\ nB \notin DOMAIN GlobalBefore(h)
          /\ FileAt(files, GlobalPath) # FileAt(h.files, GlobalPath)

\* the j-th smallest member of a set of numbers
Nth(S, j) == CHOOSE x \in S : Cardinality({y \in S : y < x}) = j - 1

\* the positions in result.conflicts of the entries for name n
ConflictsOn(h, n) ==
    {i \in 1..Len(h.result.conflicts) : h.result.conflicts[i].server = n}

\* the source holding n after its j-th conflict entry, after none the first
\* scanned store that defines it
Holder(h, n, j) ==
    IF j = 0 THEN h.scanned[Earliest(h, n)].name
    ELSE h.result.conflicts[Nth(ConflictsOn(h, n), j)].chosen_source

\* the incumbent is kept: auto_resolve "first", or choice 1 at the i-th call
\* of _resolve_conflict
Kept(h, i) ==
    \/ h.auto_resolve = "first"
    \/ h.auto_resolve = "none" /\ h.answers[i] = "existing"

\* C12: in vacuum_configs the first scanned store defining a name is its
\* incumbent; every later scanned store defining it yields exactly one
\* conflict entry, whose chosen_source is the incumbent when it is kept
\* ("first", choice 1) and the later store when it is replaced ("last",
\* choice 2) and whose rejected_source is the other; the source reported in
\* imported_servers is the chosen_source of the name's last conflict entry.
C12_ConflictEntries ==
    \A r \in 1..Len(history) :
        LET h == history[r] IN
        (h.kind = "vacuum" /\ ~h.raised) =>
            \A n \in Names :
                LET D == Definers(h, n)
                    K == ConflictsOn(h, n)
                IN  /\ D = {} => K = {}
                    /\ D # {} =>
                        /\ Cardinality(K) = Cardinality(D) - 1
                        /\ \A j \in 1..Cardinality(K) :
                              LET i == Nth(K, j)
                                  e == h.result.conflicts[i]
                                  incumbent == Holder(h, n, j - 1)
                                  later == h.scanned[Nth(D, j + 1)].name
                              IN  /\ e.chosen_source =
                                        IF Kept(h, i) THEN incumbent ELSE later
                                  /\ e.rejected_source =
                                        IF Kept(h, i) THEN later ELSE incumbent
                        /\ n \in DOMAIN h.result.imported_servers =>
                              h.result.imported_servers[n] =
                                 Holder(h, n, Cardinality(K))

\* C12 witness: an interactive run in which three stores define a, the second
\* replaces the first (choice 2) and is kept against the third (choice 1), and
\* a is imported from the second
C12_Witness ==
    /\ history # <<>>
    /\ LET h == history[Len(history)]
           K == ConflictsOn(h, nA)
       IN  /\ h.kind = "vacuum" /\ h.auto_resolve = "none" /\ ~h.raised
           /\ Cardinality(Definers(h, nA)) = 3
           /\ Cardinality(K) = 2
           /\ ~Kept(h, Nth(K, 1)) /\ Kept(h, Nth(K, 2))
           /\ nA \in DOMAIN h.result.imported_servers
           /\ h.result.imported_servers[nA] = h.scanned[Nth(Definers(h, nA), 2)].name
           /\ h.result.conflicts[Nth(K, 2)].rejected_source =
                 h.scanned[Nth(Definers(h, nA), 3)].name

\* the `<executable> --version` probe of the client of a CLI step would not
\* exit 0 on the tool as the step finds it
ProbeFails(step) ==
    LET client_id == ClientId(step.location)
    IN  /\ client_id \in DOMAIN clients
        /\ ~IsCliAvailable(clients[client_id], step.before).ret

\* C13: a CLI client whose `<executable> --version` probe does not exit 0 is
\* not treated as a synchronizable store: reconciling it spawns no list, add
\* or remove command.
C13_UnavailableNotSynced ==
    \A i \in 1..Len(steps) :
        (steps[i].kind = "cli" /\ ProbeFails(steps[i])) => steps[i].spawned = <<>>

\* the process a _detect_server_scope step spawned, run again on the tool as
\* the step found it
GetRun(step) == Spawn(step.before, step.spawned[1])

\* the get output carries the marker `scope: <word>`, in any case
Marker(step, word) == Contains(Lower(GetRun(step).stdout), <<"scope:", " ", word>>)

\* C14: _detect_server_scope returns "local" whenever the get command exits
\* non-zero, times out, cannot be started, or exits 0 with output that has no
\* `scope: user|project|local` marker in any case, empty output included; it
\* returns "user" or "project" only when the command exits 0 and its output
\* carries that marker.
C14_ScopeFallback ==
    \A i \in 1..Len(steps) :
        LET st == steps[i] IN
        st.kind = "_detect_server_scope" =>
            /\ st.ret \in {<<"local">>, <<"user">>, <<"project">>}
            /\ st.spawned = <<>> => st.ret = <<"local">>
            /\ st.spawned # <<>> =>
                /\ GetRun(st).status # "exit0" => st.ret = <<"local">>
                /\ (~Marker(st, "user") /\ ~Marker(st, "project") /\ ~Marker(st, "local"))
                      => st.ret = <<"local">>
                /\ \A word \in {"user", "project"} :
                      st.ret = <<word>> => GetRun(st).status = "exit0" /\ Marker(st, word)

\* C14 witness: of two calls on one tool, the get command of one exits 0 and
\* prints `scope: PROJECT`, which gives "project", and that of the other
\* exits 1, which gives "local"
C14_Witness ==
    /\ Len(steps) = 2
    /\ steps[1].kind = "_detect_server_scope" /\ steps[2].kind = "_detect_server_scope"
    /\ \E i, j \in 1..2 :
          /\ steps[i].spawned # <<>> /\ GetRun(steps[i]).status = "exit0"
          /\ Marker(steps[i], "project") /\ steps[i].ret = <<"project">>
          /\ steps[j].spawned # <<>> /\ GetRun(steps[j]).status = "exit1"
          /\ steps[j].ret = <<"local">>

\* the list process a get_mcp_servers step spawned, run again on the tool as
\* the step found it
ListRun(step) == Spawn(step.before, step.spawned[1])

\* the names n of the output lines `n: command-line`, n matching the
\* identifier pattern
ListedNames(stdout) ==
    LET lines == SplitOn(stdout, {NL}, <<>>)
    IN  { n \in Names : \E k \in 1..Len(lines) :
            /\ IndexOf(lines[k], ":") > 1
            /\ SubSeq(lines[k], 1, IndexOf(lines[k], ":") - 1) = n
            /\ ValidServerName(n) }

\* C15: when the list command exits 0, get_mcp_servers returns a mapping with
\* an entry for every output line `name: command-line` whose name matches the
\* identifier pattern, whatever other lines the output has: no line makes the
\* call return None.
C15_ListParsesEveryLine ==
    \A i \in 1..Len(steps) :
        LET st == steps[i] IN
        (st.kind = "get_mcp_servers" /\ st.spawned # <<>>
            /\ ListRun(st).status = "exit0") =>
                /\ st.ret.ok
                /\ ListedNames(ListRun(st).stdout) \subseteq DOMAIN st.ret.servers

\* path is the path of a location of the registry reg
Registered(reg, path) == \E i \in 1..Len(reg) : reg[i].path = path

\* C16: after any sequence of add_location and remove_location calls on a
\* registry that starts without duplicate paths, no two registered locations
\* share a path; add_location of a registered path returns False and leaves
\* the registry as it is, otherwise it appends the location at the end and
\* returns True; remove_location returns True iff the path was registered,
\* after it the path is absent and the other locations keep their order.
C16_RegistryPathsUnique ==
    /\ \A i, j \in 1..Len(locations) : locations[i].path = locations[j].path => i = j
    /\ \A r \in 1..Len(history) :
          LET h == history[r] IN
          /\ h.kind = "add_location" =>
                IF Registered(h.before, h.path)
                THEN ~h.ret /\ h.after = h.before
                ELSE /\ h.ret
                     /\ Len(h.after) = Len(h.before) + 1
                     /\ SubSeq(h.after, 1, Len(h.before)) = h.before
                     /\ h.after[Len(h.after)].path = h.path
          /\ h.kind = "remove_location" =>
                /\ h.ret <=> Registered(h.before, h.path)
                /\ ~Registered(h.after, h.path)
                /\ \E gone \in SUBSET (1..Len(h.before)) :
                      /\ \A i \in 1..Len(h.before) : i \in gone <=> h.before[i].path = h.path
                      /\ Cardinality(gone) <= 1
                      /\ h.after = [i \in 1..(Len(h.before) - Cardinality(gone)) |->
                                       IF \A g \in gone : i < g THEN h.before[i]
                                       ELSE h.before[i + 1]]

\* C16 witness: a path added without a name (named by its stem), refused when
\* added again, and the first of three locations removed with the other two
\* left in their order
C16_Witness ==
    /\ Len(history) = 3
    /\ history[1].kind = "add_location" /\ history[1].ret
    /\ history[1].after[Len(history[1].after)] = Location(P2Path, <<"q">>, "file")
    /\ history[2].kind = "add_location" /\ ~history[2].ret
    /\ history[2].path = P2Path
    /\ history[3].kind = "remove_location" /\ history[3].ret
    /\ Len(history[3].before) = 3
    /\ history[3].path = history[3].before[1].path
    /\ locations = SubSeq(history[3].before, 2, 3)

\* key, all of it, matches [A-Za-z_][A-Za-z0-9_]*
IsIdentifier(key) ==
    /\ Len(key) >= 1
    /\ key[1] \in (AlnumAtoms \ {"1"}) \cup {"_"}
    /\ \A i \in 2..Len(key) : key[i] \in AlnumAtoms \cup {"_"}

\* the KEYs of the `-e KEY=value` pairs of an argument vector, those before
\* the `--` that starts the server's own command line
EnvKeys(argv) ==
    LET dd  == IndexOf(argv, <<"--">>)
        end == IF dd = 0 THEN Len(argv) ELSE dd - 1
    IN  { SubSeq(argv[i + 1], 1, IndexOf(argv[i + 1], "=") - 1) :
            i \in {k \in 1..(end - 1) : argv[k] = <<"-e">>} }

\* C17: in add_mcp_server every `-e KEY=value` pair placed in the argument
\* vector has a KEY that matches [A-Za-z_][A-Za-z0-9_]*; an env entry whose
\* key does not match is dropped and the add goes on with the other entries.
C17_EnvKeysAreIdentifiers ==
    \A i \in 1..Len(steps) :
        LET st == steps[i] IN
        (st.kind = "add_mcp_server" /\ st.spawned # <<>>) =>
            LET given == IF st.env.kind = "dict"
                         THEN {st.env.v[k] : k \in 1..Len(st.env.v)} ELSE {}
            IN  EnvKeys(st.spawned[1]) = {key \in given : IsIdentifier(key)}

\* the operations of the executor that report failure by their return value
SoftFailing ==
    {"is_cli_available", "get_mcp_servers", "add_mcp_server", "remove_mcp_server"}

\* how the last process a step spawned ended
LastStatus(step) == Spawn(step.before, step.spawned[Len(step.spawned)]).status

\* C18: whatever way the spawned process fails (non-zero exit, timeout,
\* executable not found), is_cli_available, get_mcp_servers, add_mcp_server
\* and remove_mcp_server return their failure value and raise nothing, and
\* the call spawns the failing command once only.
C18_SoftFailure ==
    \A i \in 1..Len(steps) :
        LET st == steps[i] IN
        (st.kind \in SoftFailing /\ st.spawned # <<>> /\ LastStatus(st) # "exit0") =>
            /\ ~st.raised
            /\ st.ret = st.failure
            /\ \A j, k \in 1..Len(st.spawned) : st.spawned[j] = st.spawned[k] => j = k
            /\ Len(st.spawned) <= IF st.kind = "remove_mcp_server" THEN 2 ELSE 1

\* C18 witness: an add whose process timed out returned False, and a remove
\* whose scope detection and whose remove command both timed out returned
\* False after spawning each once
C18_Witness ==
    /\ Len(steps) = 2
    /\ steps[1].kind = "add_mcp_server" /\ steps[1].spawned # <<>>
    /\ LastStatus(steps[1]) = "timeout" /\ steps[1].ret = FALSE
    /\ steps[2].kind = "remove_mcp_server" /\ Len(steps[2].spawned) = 2
    /\ LastStatus(steps[2]) = "timeout" /\ steps[2].ret = FALSE
    /\ ~steps[1].raised /\ ~steps[2].raised

\* C19: _build_server_config_from_args returns a config whose command is a
\* non-empty list with the given executable first, the form that
\* MCPServerConfig validation and so add_server_to_global accepts.
C19_BuiltConfigIsAccepted ==
    \A r \in 1..Len(history) :
        LET h == history[r] IN
        h.kind = "add_server" =>
            /\ h.config["command"].kind = "list"
            /\ h.config["command"].v # <<>>
            /\ h.config["command"].v[1] = h.server_cmd
            /\ MCPServerConfigValid(h.config)
            /\ ~h.raised

\* the last step is a _sync_cli_location whose list operation was not
\* available: the client has no definition, or get_mcp_servers returned None
ListUnavailable ==
    /\ InStep /\ LastStep.kind = "cli"
    /\ LET client_id == ClientId(LastStep.location)
       IN  \/ client_id \notin DOMAIN clients
           \/ ~GetMcpServers(client_id, clients[client_id], LastStep.before).ret.ok

\* C20: when a CLI store's list operation is unavailable, reconciling the
\* store records an errors entry for it, invokes neither add nor remove, and
\* does not mark the store updated.
C20_ListUnavailableIsError ==
    ListUnavailable =>
        /\ \E i \in 1..Len(NewErrors) : NewErrors[i].location = LastStep.location.path
        /\ LastStep.calls = <<>>
        /\ NewUpdated = <<>>

\* the number of add calls the last step made for name n
AddsFor(n) == Count(LastStep.calls, LAMBDA c : c.op = "add" /\ c.name = n)

\* C21: a non-dry-run _sync_cli_location that finds changes invokes add for a
\* command-bearing master server iff the store does not hold the server or
\* holds it with another canonical argument vector; a master server whose
\* canonical vector equals the store's is not added again.
C21_AddsWhatDiffers ==
    (InCliStep /\ ~opts.dry_run /\ NewUpdated # <<>>) =>
        \A n \in Names :
            AddsFor(n) =
               IF /\ n \in CommandBearing(master_servers)
                  /\ \/ n \notin DOMAIN StoreRecords
                     \/ Canonical(StoreRecords[n]) # Canonical(master_servers[n])
               THEN 1 ELSE 0

\* the last step is a _sync_location on a file store whose document is
\* missing or is not valid JSON
UnreadableFileStep ==
    /\ InStep /\ LastStep.kind = "file"
    /\ LastStep.before.state \in {"missing", "corrupt"}

\* C22: when a file store's document is missing or is not valid JSON,
\* _sync_location records exactly one errors entry for the store, neither
\* creates nor writes the document, records no conflict and does not mark the
\* store updated.
C22_UnreadableStoreIsError ==
    UnreadableFileStep =>
        /\ Len(NewErrors) = 1
        /\ NewErrors[1].location = LastStep.location.path
        /\ FileAt(files, LastStep.location.path) = LastStep.before
        /\ ~LastStep.raised
        /\ NewConflicts = <<>>
        /\ NewUpdated = <<>>

\* C22 witness: a non-dry run with a master list to push reaches a file store
\* whose document is not valid JSON and records the error
C22_Witness ==
    /\ UnreadableFileStep
    /\ LastStep.before.state = "corrupt"
    /\ ~opts.dry_run
    /\ master_servers # EmptyMap
    /\ Len(NewErrors) = 1
    /\ FileAt(files, LastStep.location.path).state = "corrupt"

\* the last step is a _sync_location that rewrote the document of its store
RewroteStore ==
    /\ InStep /\ LastStep.kind = "file" /\ ~LastStep.raised
    /\ FileAt(files, LastStep.location.path) # LastStep.before

\* C23: a file reconcile that rewrites a store changes only the value of the
\* top-level mcpServers key; every other top-level key of the document is
\* written back with the value it had.
C23_OtherKeysPreserved ==
    RewroteStore =>
        LET now == FileAt(files, LastStep.location.path)
        IN  /\ now.other = LastStep.before.other
            /\ now = [LastStep.before EXCEPT !.hasKey = TRUE,
                                             !.mcpServers = now.mcpServers]

\* C23 witness: a store document with another top-level key and no mcpServers
\* key is rewritten with a server map and keeps the other key
C23_Witness ==
    /\ RewroteStore
    /\ LastStep.before.other # 0 /\ ~LastStep.before.hasKey
    /\ FileAt(files, LastStep.location.path).mcpServers # EmptyMap
    /\ FileAt(files, LastStep.location.path).other = LastStep.before.other

\* the master servers that carry a transport URL
UrlBearing(servers) == (DOMAIN servers) \ CommandBearing(servers)

\* C24: in _sync_cli_location a master server that carries a transport URL
\* is never passed to add and never causes a remove, and it is left out of
\* the comparison of names and argument vectors that decides whether the
\* store is marked updated; a conflict is still recorded for it when the
\* store holds a server of the same name with another argument vector.
C24_UrlServersOnlyConflict ==
    (InCliStep /\ UrlBearing(master_servers) # {}) =>
        /\ \A n \in UrlBearing(master_servers) :
              /\ \A k \in 1..Len(LastStep.calls) : LastStep.calls[k].name # n
              /\ Count(NewConflicts, LAMBDA c : c.server = n) =
                    IF n \in DOMAIN StoreRecords
                       /\ Canonical(StoreRecords[n]) # Canonical(master_servers[n])
                    THEN 1 ELSE 0
        /\ NewUpdated = IF CliInSync THEN <<>> ELSE <<LastStep.location.path>>

\* the record of name n that the scan of history entry h ends with: that of
\* the store holding n after the last conflict
FinalRecord(h, n) ==
    LET holder == Holder(h, n, Cardinality(ConflictsOn(h, n)))
    IN  StoreDefines(h, CHOOSE i \in Definers(h, n) : h.scanned[i].name = holder)[n]

\* a record with a non-empty command whose first element is non-empty, once a
\* string command is taken as a one-element list
HasCommand(config) ==
    /\ config["command"].kind \in {"str", "list"}
    /\ config["command"].v # <<>>
    /\ config["command"].v[1] # <<>>

\* the global document after the r-th run
GlobalAfter(r) ==
    FileAt(IF r = Len(history) THEN files ELSE history[r + 1].files, GlobalPath)

\* after the r-th run name n is in the global document as it was in the
\* global scope before the run, or not at all
NotWritten(r, n) ==
    LET now == ServersOf(GlobalAfter(r))
    IN  n \in DOMAIN now =>
            n \in DOMAIN GlobalBefore(history[r]) /\ now[n] = GlobalBefore(history[r])[n]

\* C25: a vacuum_configs run that writes the global scope leaves every entry
\* with a non-empty command whose first element is non-empty; a discovered
\* record with a URL and no command is put in skipped_servers, one that fails
\* validation is put in errors, and neither is written to the global scope.
C25_ImportsOnlyValid ==
    \A r \in 1..Len(history) :
        LET h == history[r]
            now == GlobalAfter(r)
            met == {n \in Discovered(h) :
                      ~(h.skip_existing /\ n \in DOMAIN GlobalBefore(h))}
        IN  (h.kind = "vacuum" /\ ~h.raised) =>
            /\ now # FileAt(h.files, GlobalPath) =>
                  \A n \in DOMAIN ServersOf(now) :
                      ServersOf(now)[n]["command"].kind = "list" /\ HasCommand(ServersOf(now)[n])
            /\ \A n \in met :
                  LET config  == FinalRecord(h, n)
                      urlOnly == config["url"].kind # "absent"
                                   /\ config["command"].kind = "absent"
                  IN  /\ urlOnly =>
                            /\ \E i \in 1..Len(h.result.skipped_servers) :
                                  h.result.skipped_servers[i] = n
                            /\ n \notin DOMAIN h.result.imported_servers
                            /\ NotWritten(r, n)
                      /\ (~urlOnly /\ ~HasCommand(config)) =>
                            /\ \E i \in 1..Len(h.result.errors) :
                                  h.result.errors[i].server = n
                            /\ n \notin DOMAIN h.result.imported_servers
                            /\ NotWritten(r, n)

\* C25 witness: a run that skips a URL-only a, records an error for a b whose
\* command is empty, or the other way round, and rewrites the global document
C25_Witness ==
    /\ Len(history) = 1 /\ history[1].kind = "vacuum" /\ ~history[1].raised
    /\ LET h == history[1] IN
          /\ \E n \in Discovered(h) :
                /\ FinalRecord(h, n)["url"].kind # "absent"
                /\ FinalRecord(h, n)["command"].kind = "absent"
                /\ h.result.skipped_servers = <<n>>
          /\ \E n \in Discovered(h) :
                /\ FinalRecord(h, n)["url"].kind = "absent"
                /\ ~HasCommand(FinalRecord(h, n))
                /\ Len(h.result.errors) = 1 /\ h.result.errors[1].server = n
          /\ FileAt(files, GlobalPath) # FileAt(h.files, GlobalPath)

\* the elements one template token yields in the argument vector
TokenYield(part, st) ==
    IF Has(part, "{scope}") THEN <<Replace(part, "{scope}", <<"local">>)>>
    ELSE IF Has(part, "{transport}") THEN <<Replace(part, "{transport}", <<"stdio">>)>>
    ELSE IF Has(part, "{env_flags}")
         THEN IF st.env.kind = "dict" THEN EnvFlags(st.env.v) ELSE <<>>
    ELSE IF Has(part, "{name}") THEN <<Replace(part, "{name}", st.name)>>
    ELSE IF Has(part, "{command}") THEN <<Replace(part, "{command}", st.command[1])>>
    ELSE IF Has(part, "{args}") THEN Tail(st.command)
    ELSE IF Has(part, "{command_args}") THEN << <<"--">> >> \o st.command
    ELSE <<part>>

\* C26: add_mcp_server builds the argument vector token by token in template
\* order: a literal token yields itself, a token with {name}, {scope},
\* {transport} or {command} one element with the value in place, {args} the
\* launch argv after its first element, {env_flags} the -e pairs,
\* {command_args} `--` and every launch argv element; every launch argv
\* element is in the vector unchanged and in order.
C26_ArgvTokenByToken ==
    \A i \in 1..Len(steps) :
        LET st == steps[i]
            parts == ShlexSplit(st.template)
        IN  (st.kind = "add_mcp_server" /\ st.spawned # <<>>) =>
                st.spawned[1] = Concat([k \in 1..Len(parts) |-> TokenYield(parts[k], st)])

\* the state of the store at a location: the tool of a CLI store, the
\* document of a file store
StoreAt(location) ==
    IF IsCliLocation(location) THEN tools[ClientId(location)]
    ELSE FileAt(files, location.path)

\* the stores processed before position k are as the run's steps left them
KeepsWritten(run_todo, run_steps, k) ==
    \A i \in 1..(k - 1) : StoreAt(run_todo[i]) = run_steps[i].after

\* C27: when sync_all is interrupted while it processes its k-th store, every
\* store processed before it keeps the state the run wrote and every store
\* after it is unchanged: no step of the run, and not the interrupt, touches
\* another store than the one being processed.
C27_InterruptKeepsAndSpares ==
    /\ [](pc = "loop" => KeepsWritten(todo, steps, idx))
    /\ [](pc = "idle" /\ history # <<>> /\ "at" \in DOMAIN history[Len(history)]
            => KeepsWritten(history[Len(history)].todo, history[Len(history)].steps,
                            history[Len(history)].at))
    /\ [][pc = "loop" /\ idx <= Len(todo)
            => \A j \in 1..Len(todo) : j # idx =>
                 (IF IsCliLocation(todo[j]) THEN tools'[ClientId(todo[j])]
                  ELSE FileAt(files', todo[j].path)) = StoreAt(todo[j])]_vars

\* a run cut short at its second store after it rewrote the first, the second
\* store left changed
C27_Witness ==
    /\ pc = "idle"
    /\ history # <<>>
    /\ LET h == history[Len(history)]
       IN  /\ "at" \in DOMAIN h
           /\ h.at = 2
           /\ h.steps[1].after # h.steps[1].before
           /\ StoreAt(h.todo[1]) = h.steps[1].after
           /\ StoreAt(h.todo[2]) \notin {OkDoc([n \in {nB} |-> pList])}

\* C28: sync_all never writes the project-scope document .mcp.json, whatever
\* its options are, specific_location included.
C28_ProjectDocumentNeverWritten ==
    [][FileAt(files', ProjectPath) = FileAt(files, ProjectPath)]_vars

\* a record as model_dump writes it, when it validates
Dumped(config) == IF MCPServerConfigValid(config) THEN MCPServerConfig(config) ELSE config

\* C29: vacuum_configs leaves every entry of the persisted global document
\* that it does not write as it was: a valid record whose name the run does not
\* import is in the document afterwards with the same record, whatever the
\* other entries of the document are.
C29_UnwrittenEntriesKept ==
    \A r \in 1..Len(history) :
        LET h == history[r]
            before == ServersOf(FileAt(h.files, GlobalPath))
            after  == ServersOf(GlobalAfter(r))
        IN  (h.kind = "vacuum" /\ ~h.raised /\ FileAt(h.files, GlobalPath).state = "ok") =>
                \A n \in DOMAIN before :
                    (MCPServerConfigValid(before[n])
                     /\ n \notin DOMAIN h.result.imported_servers) =>
                        n \in DOMAIN after /\ Dumped(after[n]) = Dumped(before[n])

\* the names the remove calls of the step just made were given
RemovedNames == {n \in Names : \E k \in 1..Len(LastStep.calls) :
                    LastStep.calls[k].op = "remove" /\ LastStep.calls[k].name = n}

\* C30: for every combination of global_only and project_only, sync_all
\* removes from a CLI store only servers that neither the global nor the
\* project scope defines.
C30_RemovesOnlyUndefined ==
    InCliStep => RemovedNames \cap ((DOMAIN GlobalScope) \cup (DOMAIN ProjectScope)) = {}

====
